---- MODULE Spec2Model ----
(***************************************************************************)
(* Cost Estimation & Approval Governance Engine of ICEPac.                 *)
(*                                                                         *)
(* State: the persisted rows of the wbs, resource_assignments, risks and   *)
(* audit_logs tables (the wbs table carries approval_status as added by    *)
(* alembic revision 004) and the response of the last service call.  One   *)
(* operator per service method, giving the state the call leaves behind,   *)
(* and one action per method that installs it.  Under Spec and SpecEdit    *)
(* every method runs to completion before the next one starts (one request *)
(* at a time): Spec exercises the approval workflow with every caller,     *)
(* comment and clock reading, SpecEdit exercises the assignment and risk   *)
(* mutations with every request body.                                      *)
(***************************************************************************)
EXTENDS Integers, Sequences, FiniteSets, TLC

(* ------------------------------ bounds --------------------------------- *)
MaxWbs == 2
MaxAssignments == 2
MaxRisks == 1
MaxAudit == 4
MaxTime == 2
MaxRequests == 2
Precision == 100
MaxRows == 3
MaxRiskRows == 2
MaxProjects == 2
MaxProjectRows == 2
MaxJobs == 2

(* --------------------------- value domains ----------------------------- *)
NULL == "NULL"
\* SQL NULL in a nullable DateTime / Integer column
NoDate == -1

HTTP_400_BAD_REQUEST == 400
HTTP_404_NOT_FOUND == 404
HTTP_409_CONFLICT == 409

WbsIds == 1..MaxWbs
ProjectIds == 1..MaxProjects
\* ids a caller may pass: every stored id plus one that is never stored
WbsIdInputs == 1..(MaxWbs + 1)
AssignmentIdInputs == 1..(MaxAssignments + 1)
RiskIdInputs == 1..(MaxRisks + 1)

Statuses == {"draft", "submitted", "approved", "rejected"}

\* authenticated callers (user_id, username): alice submits and resets, the
\* managers bob and carol approve and reject
Submitters == {[id |-> 1, username |-> "alice"]}
Approvers == {[id |-> 2, username |-> "bob"], [id |-> 3, username |-> "carol"]}

\* the optional comment of a reject: absent, empty, or a text
Comments == {NULL, "", "Fix estimate"}

\* readings of datetime.utcnow()
Times == 1..MaxTime

\* rows of the resources table (resource_code)
Resources == {"RES001", "RES002"}

(* --------------------------- request bodies ---------------------------- *)
AssignmentBody ==
  [resource_code |-> "RES001", best_estimate |-> 6, likely_estimate |-> 12,
   worst_estimate |-> 18]

AssignmentCreateInputs ==
  { AssignmentBody, [AssignmentBody EXCEPT !.resource_code = "INVALID"] }

\* model_dump(exclude_unset=True): only the fields the caller sent
AssignmentUpdateInputs ==
  { [best_estimate |-> 12], [resource_code |-> "INVALID"] }

RiskCreateInputs ==
  { [risk_cost |-> 1000, probability_code |-> "HIGH", severity_code |-> "LOW"] }

RiskUpdateInputs == { [risk_cost |-> 2000] }

WBSUpdateInputs ==
  { [approver |-> "bob"] }

(* ------------------------------- state --------------------------------- *)
VARIABLES
  wbs,              \* wbs table: id -> row
  assignments,      \* resource_assignments table: id -> row
  assignment_seq,   \* last id handed out by the resource_assignments key
  risks,            \* risks table: id -> row
  risk_seq,         \* last id handed out by the risks key
  audit_logs,       \* audit_logs table, in insertion order
  resp,             \* outcome of the last service call
  sessions,         \* requests in flight: the row each Session has loaded
  submitted_inputs, \* history: assignments/risks of a WBS at its last submit
  approved_by,      \* history: caller and time of the last successful approve
  projects,         \* projects table: id -> row
  import_jobs       \* import_jobs table: id -> row

vars == <<wbs, assignments, assignment_seq, risks, risk_seq, audit_logs,
          resp, sessions, submitted_inputs, approved_by, projects,
          import_jobs>>

(* --------------------------- BaseRepository ---------------------------- *)
\* BaseRepository.update: setattr for every field of obj_in the row has
RepoUpdate(db_obj, obj_in) ==
  [f \in DOMAIN db_obj |-> IF f \in DOMAIN obj_in THEN obj_in[f] ELSE db_obj[f]]

\* BaseRepository.delete
RepoDelete(table, id) == [k \in (DOMAIN table) \ {id} |-> table[k]]

\* AssignmentRepository.get_by_wbs / RiskRepository.get_by_wbs
GetByWbs(table, wbs_id) == {k \in DOMAIN table : table[k].wbs_id = wbs_id}

\* mutation: the count ignores the WBS item
CountByWbs_AllRows(table, wbs_id) == Cardinality(DOMAIN table)

\* AssignmentRepository.count_by_wbs
CountByWbs(table, wbs_id) == Cardinality(GetByWbs(table, wbs_id))

\* the rows (with their ids) a WBS item owns
OwnedRows(table, wbs_id) == {<<k, table[k]>> : k \in GetByWbs(table, wbs_id)}

(* ---------------------------- HTTP results ----------------------------- *)
\* the method returned without raising
Ok == [code |-> 0, detail |-> <<>>]

\* raise HTTPException(status_code, detail)
HTTPException(code, detail) == [code |-> code, detail |-> detail]

(* ---------------------------- ApprovalService -------------------------- *)
\* mutation: a rejected item may be submitted again without a reset
VALID_TRANSITIONS_Resubmit ==
  [s \in Statuses |->
     CASE s = "draft" -> {"submitted"}
       [] s = "submitted" -> {"approved", "rejected"}
       [] s = "rejected" -> {"draft", "submitted"}
       [] s = "approved" -> {}]

VALID_TRANSITIONS ==
  [s \in Statuses |->
     CASE s = "draft" -> {"submitted"}
       [] s = "submitted" -> {"approved", "rejected"}
       [] s = "rejected" -> {"draft"}
       [] s = "approved" -> {}]

\* wbs.approval_status or "draft"
CurrentStatus(row) ==
  IF row.approval_status = NULL THEN "draft" ELSE row.approval_status

\* mutation: nothing is refused on an approved item
ValidateTransition_ApprovedOpen(wbs_id, target_status) ==
  IF wbs_id \notin DOMAIN wbs THEN HTTP_404_NOT_FOUND
  ELSE IF /\ target_status \notin VALID_TRANSITIONS[CurrentStatus(wbs[wbs_id])]
          /\ CurrentStatus(wbs[wbs_id]) # "approved"
       THEN HTTP_409_CONFLICT
       ELSE 0

\* _validate_transition: 0 when the transition is allowed, else the HTTP code
ValidateTransition(wbs_id, target_status) ==
  IF wbs_id \notin DOMAIN wbs THEN HTTP_404_NOT_FOUND
  ELSE IF target_status \notin VALID_TRANSITIONS[CurrentStatus(wbs[wbs_id])]
       THEN HTTP_409_CONFLICT
       ELSE 0

\* mutation: the 409 does not name the current status
TransitionError_TargetOnly(wbs_id, target_status) ==
  IF wbs_id \notin DOMAIN wbs
  THEN HTTPException(HTTP_404_NOT_FOUND, <<"WBS item not found">>)
  ELSE HTTPException(HTTP_409_CONFLICT,
         <<"Cannot transition to", target_status>>)

TransitionError(wbs_id, target_status) ==
  IF wbs_id \notin DOMAIN wbs
  THEN HTTPException(HTTP_404_NOT_FOUND, <<"WBS item not found">>)
  ELSE HTTPException(HTTP_409_CONFLICT,
         <<"Cannot transition from", CurrentStatus(wbs[wbs_id]),
           "to", target_status>>)

\* _log_audit: the row inserted into audit_logs (the details carry the
\* comment only when it is truthy; NULL stands for the missing key)
AuditEntry(user, action, wbs_id, row, comment) ==
  [user_id |-> user.id, action |-> action, entity_type |-> "WBS",
   entity_id |-> wbs_id,
   new_values |-> [wbs_code |-> row.wbs_code, wbs_title |-> row.wbs_title,
                   approval_status |-> row.approval_status,
                   estimate_revision |-> row.estimate_revision,
                   comment |-> IF comment \in {NULL, ""} THEN NULL
                               ELSE comment]]

\* wbs.estimate_revision or 0
OrZero(x) == IF x = NoDate THEN 0 ELSE x

\* the column writes of each transition, applied to the loaded row
\* mutation: the submit counts a revision
SubmitRow_CountsRevision(row) ==
  [row EXCEPT !.approval_status = "submitted",
              !.estimate_revision = OrZero(row.estimate_revision) + 1]

SubmitRow(row) == [row EXCEPT !.approval_status = "submitted"]

\* mutation: the approval does not count a revision
ApproveRow_NoIncrement(row, username, utcnow) ==
  [row EXCEPT !.approval_status = "approved",
              !.approver = username,
              !.approver_date = utcnow]

ApproveRow(row, username, utcnow) ==
  [row EXCEPT !.approval_status = "approved",
              !.approver = username,
              !.approver_date = utcnow,
              !.estimate_revision = OrZero(row.estimate_revision) + 1]

\* mutation: the comment is stored on the row
RejectRow_StoresComment(row, comment) ==
  [row EXCEPT !.approval_status = "rejected", !.notes = comment]

RejectRow(row, comment) == [row EXCEPT !.approval_status = "rejected"]

ResetRow(row) == [row EXCEPT !.approval_status = "draft"]

\* column defaults of Project (ProjectStatus.DRAFT)
ProjectDefaults == [project_name |-> "Plant", status |-> "draft"]

Init ==
  /\ wbs = [w \in WbsIds |->
              [project_id |-> 1, wbs_code |-> w, wbs_title |-> "Task",
               notes |-> NULL,
               approval_status |-> "draft", approver |-> NULL,
               approver_date |-> NoDate, estimate_revision |-> 0]]
  /\ assignments = <<>>
  /\ assignment_seq = 0
  /\ risks = <<>>
  /\ risk_seq = 0
  /\ audit_logs = <<>>
  /\ resp = [code |-> 0, detail |-> <<"no call yet">>]
  /\ sessions = {}
  /\ submitted_inputs = [w \in WbsIds |-> <<{}, {}>>]
  /\ approved_by = [w \in WbsIds |-> <<NULL, NoDate>>]
  /\ projects = [p \in ProjectIds |-> ProjectDefaults]
  /\ import_jobs = <<>>


(* ------------------------- the state of a call ------------------------- *)
\* what a service method reads and writes
State ==
  [wbs |-> wbs, assignments |-> assignments, assignment_seq |-> assignment_seq,
   risks |-> risks, risk_seq |-> risk_seq, audit_logs |-> audit_logs,
   resp |-> resp, submitted_inputs |-> submitted_inputs,
   approved_by |-> approved_by]

\* a call that raises: nothing is written, the caller gets the error
Raise(r) == [State EXCEPT !.resp = r]

\* the call returns: its writes are installed (ids and audit rows within the
\* bounds of the model)
Returns(post) ==
  /\ Len(post.audit_logs) <= MaxAudit
  /\ post.assignment_seq <= MaxAssignments
  /\ post.risk_seq <= MaxRisks
  /\ wbs' = post.wbs
  /\ assignments' = post.assignments
  /\ assignment_seq' = post.assignment_seq
  /\ risks' = post.risks
  /\ risk_seq' = post.risk_seq
  /\ audit_logs' = post.audit_logs
  /\ resp' = post.resp
  /\ submitted_inputs' = post.submitted_inputs
  /\ approved_by' = post.approved_by
  /\ UNCHANGED <<sessions, projects, import_jobs>>

(* ----------------------- ApprovalService methods ----------------------- *)
\* db.commit(), db.refresh(wbs) and _log_audit of the refreshed row
\* mutation: the transition is committed without an audit row
CommitTransition_NoAudit(wbs_id, row, user, action, comment) ==
  [State EXCEPT !.wbs[wbs_id] = row, !.resp = Ok]

CommitTransition(wbs_id, row, user, action, comment) ==
  [State EXCEPT !.wbs[wbs_id] = row,
                !.audit_logs = Append(audit_logs,
                                 AuditEntry(user, action, wbs_id, row, comment)),
                !.resp = Ok]

\* mutation: the assignments are counted before the transition is checked
submit_for_approval_CountFirst(wbs_id, user) ==
  IF wbs_id \notin DOMAIN wbs
  THEN Raise(TransitionError(wbs_id, "submitted"))
  ELSE IF CountByWbs(assignments, wbs_id) = 0
  THEN Raise(HTTPException(HTTP_400_BAD_REQUEST,
               <<"Cannot submit for approval: WBS has no assignments">>))
  ELSE IF ValidateTransition(wbs_id, "submitted") # 0
  THEN Raise(TransitionError(wbs_id, "submitted"))
  ELSE [CommitTransition(wbs_id, SubmitRow(wbs[wbs_id]), user, "SUBMIT", NULL)
          EXCEPT !.submitted_inputs[wbs_id] =
            <<OwnedRows(assignments, wbs_id), OwnedRows(risks, wbs_id)>>]

submit_for_approval(wbs_id, user) ==
  IF ValidateTransition(wbs_id, "submitted") # 0
  THEN Raise(TransitionError(wbs_id, "submitted"))
  ELSE IF CountByWbs(assignments, wbs_id) = 0
  THEN Raise(HTTPException(HTTP_400_BAD_REQUEST,
               <<"Cannot submit for approval: WBS has no assignments">>))
  ELSE [CommitTransition(wbs_id, SubmitRow(wbs[wbs_id]), user, "SUBMIT", NULL)
          EXCEPT !.submitted_inputs[wbs_id] =
            <<OwnedRows(assignments, wbs_id), OwnedRows(risks, wbs_id)>>]

approve(wbs_id, user, utcnow) ==
  IF ValidateTransition(wbs_id, "approved") # 0
  THEN Raise(TransitionError(wbs_id, "approved"))
  ELSE [CommitTransition(wbs_id,
                         ApproveRow(wbs[wbs_id], user.username, utcnow),
                         user, "APPROVE", NULL)
          EXCEPT !.approved_by[wbs_id] = <<user.username, utcnow>>]

reject(wbs_id, user, comment) ==
  IF ValidateTransition(wbs_id, "rejected") # 0
  THEN Raise(TransitionError(wbs_id, "rejected"))
  ELSE [CommitTransition(wbs_id, RejectRow(wbs[wbs_id], comment), user,
                         "REJECT", comment)
          EXCEPT !.submitted_inputs[wbs_id] = <<{}, {}>>]

reset_to_draft(wbs_id, user) ==
  IF ValidateTransition(wbs_id, "draft") # 0
  THEN Raise(TransitionError(wbs_id, "draft"))
  ELSE CommitTransition(wbs_id, ResetRow(wbs[wbs_id]), user, "RESET", NULL)

(* ------------------------------ EditGuard ------------------------------ *)
\* mutation: an approved item is open to edits
ValidateWbsEditable_SubmittedOnly(wbs_id) ==
  IF wbs_id \notin DOMAIN wbs THEN HTTP_404_NOT_FOUND
  ELSE IF wbs[wbs_id].approval_status \in {"submitted"}
       THEN HTTP_409_CONFLICT
       ELSE 0

\* _validate_wbs_editable (AssignmentService and RiskService):
\* 0 when the WBS item may be edited, else the HTTP code
ValidateWbsEditable(wbs_id) ==
  IF wbs_id \notin DOMAIN wbs THEN HTTP_404_NOT_FOUND
  ELSE IF wbs[wbs_id].approval_status \in {"submitted", "approved"}
       THEN HTTP_409_CONFLICT
       ELSE 0

EditError(wbs_id, what) ==
  IF wbs_id \notin DOMAIN wbs
  THEN HTTPException(HTTP_404_NOT_FOUND, <<"WBS item not found">>)
  ELSE HTTPException(HTTP_409_CONFLICT,
         <<what, wbs[wbs_id].approval_status>>)

AssignmentBlocked == "Cannot modify assignment: WBS item is"
RiskBlocked == "Cannot modify risk: WBS item is"

\* _validate_resource_code
ValidateResourceCode(resource_code) == resource_code \in Resources

ResourceError(resource_code) ==
  HTTPException(HTTP_400_BAD_REQUEST, <<"Resource not found", resource_code>>)

(* -------------------------- AssignmentService -------------------------- *)
\* column defaults of ResourceAssignment
AssignmentDefaults(wbs_id) ==
  [wbs_id |-> wbs_id, resource_code |-> NULL, supplier_code |-> NULL,
   cost_type_code |-> NULL, region_code |-> NULL, bus_area_code |-> NULL,
   estimating_technique_code |-> NULL,
   best_estimate |-> 0, likely_estimate |-> 0, worst_estimate |-> 0]

\* mutation: the create skips the guard
assignment_create_Unguarded(wbs_id, data) ==
  IF wbs_id \notin DOMAIN wbs
  THEN Raise(HTTPException(HTTP_404_NOT_FOUND, <<"WBS item not found">>))
  ELSE [State EXCEPT
          !.assignment_seq = assignment_seq + 1,
          !.assignments =
             ((assignment_seq + 1) :>
                RepoUpdate(AssignmentDefaults(wbs_id), data)) @@ assignments,
          !.resp = Ok]

assignment_create(wbs_id, data) ==
  IF ValidateWbsEditable(wbs_id) # 0
  THEN Raise(EditError(wbs_id, AssignmentBlocked))
  ELSE IF ~ValidateResourceCode(data.resource_code)
  THEN Raise(ResourceError(data.resource_code))
  ELSE [State EXCEPT
          !.assignment_seq = assignment_seq + 1,
          !.assignments =
             ((assignment_seq + 1) :>
                RepoUpdate(AssignmentDefaults(wbs_id), data)) @@ assignments,
          !.resp = Ok]

\* mutation: the row is written before the guard refuses the call
assignment_update_WriteFirst(assignment_id, data) ==
  IF assignment_id \notin DOMAIN assignments
  THEN Raise(HTTPException(HTTP_404_NOT_FOUND, <<"Assignment not found">>))
  ELSE IF ValidateWbsEditable(assignments[assignment_id].wbs_id) # 0
  THEN [State EXCEPT
          !.assignments[assignment_id] = RepoUpdate(@, data),
          !.resp = EditError(assignments[assignment_id].wbs_id,
                             AssignmentBlocked)]
  ELSE IF /\ "resource_code" \in DOMAIN data
          /\ data.resource_code # NULL
          /\ ~ValidateResourceCode(data.resource_code)
  THEN Raise(ResourceError(data.resource_code))
  ELSE [State EXCEPT
          !.assignments[assignment_id] = RepoUpdate(@, data),
          !.resp = Ok]

assignment_update(assignment_id, data) ==
  IF assignment_id \notin DOMAIN assignments
  THEN Raise(HTTPException(HTTP_404_NOT_FOUND, <<"Assignment not found">>))
  ELSE IF ValidateWbsEditable(assignments[assignment_id].wbs_id) # 0
  THEN Raise(EditError(assignments[assignment_id].wbs_id, AssignmentBlocked))
  ELSE IF /\ "resource_code" \in DOMAIN data
          /\ data.resource_code # NULL
          /\ ~ValidateResourceCode(data.resource_code)
  THEN Raise(ResourceError(data.resource_code))
  ELSE [State EXCEPT
          !.assignments[assignment_id] = RepoUpdate(@, data),
          !.resp = Ok]

\* mutation: the delete skips the guard
assignment_delete_Unguarded(assignment_id) ==
  IF assignment_id \notin DOMAIN assignments
  THEN Raise(HTTPException(HTTP_404_NOT_FOUND, <<"Assignment not found">>))
  ELSE [State EXCEPT
          !.assignments = RepoDelete(assignments, assignment_id),
          !.resp = Ok]

assignment_delete(assignment_id) ==
  IF assignment_id \notin DOMAIN assignments
  THEN Raise(HTTPException(HTTP_404_NOT_FOUND, <<"Assignment not found">>))
  ELSE IF ValidateWbsEditable(assignments[assignment_id].wbs_id) # 0
  THEN Raise(EditError(assignments[assignment_id].wbs_id, AssignmentBlocked))
  ELSE [State EXCEPT
          !.assignments = RepoDelete(assignments, assignment_id),
          !.resp = Ok]

(* ----------------------------- RiskService ----------------------------- *)
\* column defaults of Risk
RiskDefaults(wbs_id) ==
  [wbs_id |-> wbs_id, risk_cost |-> 0, probability_code |-> NULL,
   severity_code |-> NULL]

risk_create(wbs_id, data) ==
  IF ValidateWbsEditable(wbs_id) # 0
  THEN Raise(EditError(wbs_id, RiskBlocked))
  ELSE [State EXCEPT
          !.risk_seq = risk_seq + 1,
          !.risks = ((risk_seq + 1) :> RepoUpdate(RiskDefaults(wbs_id), data))
                      @@ risks,
          !.resp = Ok]

\* mutation: the update skips the guard
risk_update_Unguarded(risk_id, data) ==
  IF risk_id \notin DOMAIN risks
  THEN Raise(HTTPException(HTTP_404_NOT_FOUND, <<"Risk not found">>))
  ELSE [State EXCEPT !.risks[risk_id] = RepoUpdate(@, data), !.resp = Ok]

risk_update(risk_id, data) ==
  IF risk_id \notin DOMAIN risks
  THEN Raise(HTTPException(HTTP_404_NOT_FOUND, <<"Risk not found">>))
  ELSE IF ValidateWbsEditable(risks[risk_id].wbs_id) # 0
  THEN Raise(EditError(risks[risk_id].wbs_id, RiskBlocked))
  ELSE [State EXCEPT !.risks[risk_id] = RepoUpdate(@, data), !.resp = Ok]

risk_delete(risk_id) ==
  IF risk_id \notin DOMAIN risks
  THEN Raise(HTTPException(HTTP_404_NOT_FOUND, <<"Risk not found">>))
  ELSE IF ValidateWbsEditable(risks[risk_id].wbs_id) # 0
  THEN Raise(EditError(risks[risk_id].wbs_id, RiskBlocked))
  ELSE [State EXCEPT !.risks = RepoDelete(risks, risk_id), !.resp = Ok]

(* ---------------------------- ProjectService --------------------------- *)
update_wbs(wbs_id, wbs_in) ==
  IF wbs_id \notin DOMAIN wbs
  THEN Raise(HTTPException(HTTP_404_NOT_FOUND, <<"WBS item not found">>))
  ELSE [State EXCEPT !.wbs[wbs_id] = RepoUpdate(@, wbs_in), !.resp = Ok]

\* session.delete(obj) on a WBS row: the relationships assignments and risks
\* (cascade="all, delete-orphan") delete the rows the item owns
CascadeDelete(ids) ==
  [State EXCEPT
     !.wbs = [w \in (DOMAIN wbs) \ ids |-> wbs[w]],
     !.assignments = [k \in {j \in DOMAIN assignments :
                               assignments[j].wbs_id \notin ids}
                        |-> assignments[k]],
     !.risks = [k \in {j \in DOMAIN risks : risks[j].wbs_id \notin ids}
                  |-> risks[k]],
     !.resp = Ok]

\* ProjectService.delete_wbs: get_wbs_or_404, then wbs_repo.delete
delete_wbs(wbs_id) ==
  IF wbs_id \notin DOMAIN wbs
  THEN Raise(HTTPException(HTTP_404_NOT_FOUND, <<"WBS item not found">>))
  ELSE CascadeDelete({wbs_id})

\* the WBS items of a project
WbsOfProject(project_id) ==
  {w \in DOMAIN wbs : wbs[w].project_id = project_id}

\* ProjectService.delete: get_or_404, then repo.delete; Project.wbs_items
\* cascades to the WBS rows (the projects row itself is removed by the
\* action, see DeleteProject)
project_delete(project_id) ==
  IF project_id \notin DOMAIN projects
  THEN Raise(HTTPException(HTTP_404_NOT_FOUND, <<"Project not found">>))
  ELSE CascadeDelete(WbsOfProject(project_id))

\* what DELETE FROM wbs WHERE project_id = ... does to the rows that
\* reference the deleted items: the schema of the migrations deletes them
\* (ON DELETE CASCADE); the schema of the models has no ON DELETE rule, so a
\* database that enforces foreign keys refuses the statement and one that
\* does not leaves the rows behind
BulkDeleteOutcomes == {"cascade", "refused", "orphans"}

\* WBSRepository.delete_by_project: a bulk DELETE that does not load the
\* rows into the session, so the ORM cascade plays no part
delete_by_project(project_id, outcome) ==
  IF outcome = "cascade" THEN CascadeDelete(WbsOfProject(project_id))
  ELSE IF /\ outcome = "refused"
          /\ \E w \in WbsOfProject(project_id) :
               CountByWbs(assignments, w) + CountByWbs(risks, w) > 0
  THEN Raise([code |-> 500, detail |-> <<"IntegrityError">>])
  ELSE [State EXCEPT
          !.wbs = [w \in (DOMAIN wbs) \ WbsOfProject(project_id) |-> wbs[w]],
          !.resp = Ok]

(* ---------- Spec: the approval workflow, one request at a time --------- *)
Reviewer == [id |-> 2, username |-> "bob"]

Submit == \E w \in WbsIdInputs, u \in Submitters :
            Returns(submit_for_approval(w, u))
Approve == \E w \in WbsIdInputs, u \in Approvers, t \in Times :
             Returns(approve(w, u, t))
Reject == \E w \in WbsIdInputs, c \in Comments :
            Returns(reject(w, Reviewer, c))
Reset == \E w \in WbsIdInputs, u \in Submitters :
           Returns(reset_to_draft(w, u))
UpdateWbs == \E w \in WbsIdInputs, d \in WBSUpdateInputs :
               Returns(update_wbs(w, d))
CreateAssignment == \E w \in WbsIdInputs :
                      Returns(assignment_create(w, AssignmentBody))
DeleteAssignment == \E a \in AssignmentIdInputs :
                      Returns(assignment_delete(a))

Next ==
  \/ Submit
  \/ Approve
  \/ Reject
  \/ Reset
  \/ UpdateWbs
  \/ CreateAssignment
  \/ DeleteAssignment

Spec == Init /\ [][Next]_vars

(* ------ SpecEdit: assignment and risk mutations, one at a time --------- *)
\* the workflow calls drawn here are the ones the service accepts (they move
\* the items through their statuses); the refused ones are drawn by Spec
Accepted(post) == post.resp = Ok /\ Returns(post)

EditSubmit == \E w \in WbsIds, u \in Submitters :
                Accepted(submit_for_approval(w, u))
EditApprove == \E w \in WbsIds : Accepted(approve(w, Reviewer, 1))
EditReject == \E w \in WbsIds : Accepted(reject(w, Reviewer, NULL))
EditReset == \E w \in WbsIds, u \in Submitters :
               Accepted(reset_to_draft(w, u))
AssignmentCreate == \E w \in WbsIdInputs, d \in AssignmentCreateInputs :
                      Returns(assignment_create(w, d))
AssignmentUpdate == \E a \in AssignmentIdInputs, d \in AssignmentUpdateInputs :
                      Returns(assignment_update(a, d))
AssignmentDelete == \E a \in AssignmentIdInputs :
                      Returns(assignment_delete(a))
RiskCreate == \E w \in WbsIdInputs, d \in RiskCreateInputs :
                Returns(risk_create(w, d))
RiskUpdate == \E r \in RiskIdInputs, d \in RiskUpdateInputs :
                Returns(risk_update(r, d))
RiskDelete == \E r \in RiskIdInputs : Returns(risk_delete(r))

NextEdit ==
  \/ EditSubmit
  \/ EditApprove
  \/ EditReject
  \/ EditReset
  \/ AssignmentCreate
  \/ AssignmentUpdate
  \/ AssignmentDelete
  \/ RiskCreate
  \/ RiskUpdate
  \/ RiskDelete

SpecEdit == Init /\ [][NextEdit]_vars

(* ------- SpecConc: approval requests that overlap in time -------------- *)
\* Each request runs in its own Session.  _validate_transition loads the row
\* and checks its status, the handler sets columns on the loaded object,
\* db.commit() flushes an UPDATE of the columns that changed, and after
\* db.refresh() the audit row is written.  Nothing locks the row between the
\* load and the UPDATE.
SessionIds == 1..MaxRequests

Target(op) ==
  CASE op = "SUBMIT" -> "submitted"
    [] op = "APPROVE" -> "approved"
    [] op = "REJECT" -> "rejected"
    [] op = "RESET" -> "draft"

\* the column writes of the handler on the row its session has loaded
TargetRow(s) ==
  CASE s.op = "SUBMIT" -> SubmitRow(s.loaded)
    [] s.op = "APPROVE" -> ApproveRow(s.loaded, s.user.username, s.utcnow)
    [] s.op = "REJECT" -> RejectRow(s.loaded, s.comment)
    [] s.op = "RESET" -> ResetRow(s.loaded)

\* the SET list of the UPDATE: the attributes whose value changed since load
DirtyColumns(loaded, target) == {f \in DOMAIN loaded : target[f] # loaded[f]}

\* the UPDATE applied to the row as it is stored now
Flush(current, loaded, target) ==
  [f \in DOMAIN current |->
     IF f \in DirtyColumns(loaded, target) THEN target[f] ELSE current[f]]

\* every WBS item is a draft with one assignment
InitConc ==
  /\ wbs = [w \in WbsIds |->
              [project_id |-> 1, wbs_code |-> w, wbs_title |-> "Task",
               notes |-> NULL,
               approval_status |-> "draft", approver |-> NULL,
               approver_date |-> NoDate, estimate_revision |-> 0]]
  /\ assignments = [a \in WbsIds |->
                      RepoUpdate(AssignmentDefaults(a), AssignmentBody)]
  /\ assignment_seq = MaxWbs
  /\ risks = <<>>
  /\ risk_seq = 0
  /\ audit_logs = <<>>
  /\ resp = [code |-> 0, detail |-> <<"no call yet">>]
  /\ sessions = {}
  /\ submitted_inputs = [w \in WbsIds |-> <<{}, {}>>]
  /\ approved_by = [w \in WbsIds |-> <<NULL, NoDate>>]
  /\ projects = [p \in ProjectIds |-> ProjectDefaults]
  /\ import_jobs = <<>>

\* the request arrives: load and validate; a refusal ends the request
Begin(sid, op, wbs_id, user, comment, utcnow) ==
  /\ \A s \in sessions : s.sid # sid
  /\ Len(audit_logs) + Cardinality(sessions) < MaxAudit
  /\ IF ValidateTransition(wbs_id, Target(op)) # 0
     THEN /\ resp' = TransitionError(wbs_id, Target(op))
          /\ UNCHANGED sessions
     ELSE IF op = "SUBMIT" /\ CountByWbs(assignments, wbs_id) = 0
     THEN /\ resp' = HTTPException(HTTP_400_BAD_REQUEST,
                       <<"Cannot submit for approval: WBS has no assignments">>)
          /\ UNCHANGED sessions
     ELSE /\ sessions' = sessions \cup
               {[sid |-> sid, op |-> op, wbs_id |-> wbs_id, user |-> user,
                 comment |-> comment, utcnow |-> utcnow,
                 loaded |-> wbs[wbs_id], pc |-> "loaded"]}
          /\ UNCHANGED resp
  /\ UNCHANGED <<wbs, assignments, assignment_seq, risks, risk_seq,
                 audit_logs, submitted_inputs, approved_by, projects,
                 import_jobs>>

\* db.commit(): the UPDATE of the changed columns
Commit(s) ==
  /\ s.pc = "loaded"
  /\ wbs' = [wbs EXCEPT ![s.wbs_id] = Flush(@, s.loaded, TargetRow(s))]
  /\ sessions' = (sessions \ {s}) \cup {[s EXCEPT !.pc = "committed"]}
  /\ submitted_inputs' =
       IF s.op = "SUBMIT"
       THEN [submitted_inputs EXCEPT ![s.wbs_id] =
               <<OwnedRows(assignments, s.wbs_id), OwnedRows(risks, s.wbs_id)>>]
       ELSE IF s.op = "REJECT"
       THEN [submitted_inputs EXCEPT ![s.wbs_id] = <<{}, {}>>]
       ELSE submitted_inputs
  /\ approved_by' =
       IF s.op = "APPROVE"
       THEN [approved_by EXCEPT ![s.wbs_id] = <<s.user.username, s.utcnow>>]
       ELSE approved_by
  /\ UNCHANGED <<assignments, assignment_seq, risks, risk_seq, audit_logs,
                 resp, projects, import_jobs>>

\* db.refresh(wbs), _log_audit of the refreshed row, and the response
Audit(s) ==
  /\ s.pc = "committed"
  /\ audit_logs' = Append(audit_logs,
                     AuditEntry(s.user, s.op, s.wbs_id, wbs[s.wbs_id],
                                s.comment))
  /\ resp' = Ok
  /\ sessions' = sessions \ {s}
  /\ UNCHANGED <<wbs, assignments, assignment_seq, risks, risk_seq,
                 submitted_inputs, approved_by, projects, import_jobs>>

BeginSubmit == \E sid \in SessionIds, w \in WbsIdInputs, u \in Submitters :
                 Begin(sid, "SUBMIT", w, u, NULL, 1)
BeginApprove == \E sid \in SessionIds, w \in WbsIdInputs :
                  Begin(sid, "APPROVE", w, Reviewer, NULL, 1)
BeginReject == \E sid \in SessionIds, w \in WbsIdInputs :
                 Begin(sid, "REJECT", w, Reviewer, NULL, 1)
BeginReset == \E sid \in SessionIds, w \in WbsIdInputs, u \in Submitters :
                Begin(sid, "RESET", w, u, NULL, 1)
CommitStep == \E s \in sessions : Commit(s)
AuditStep == \E s \in sessions : Audit(s)

NextConc ==
  \/ BeginSubmit
  \/ BeginApprove
  \/ BeginReject
  \/ BeginReset
  \/ CommitStep
  \/ AuditStep

SpecConc == InitConc /\ [][NextConc]_vars

(* --- SpecGuardConc: edits that overlap with submit and approve --------- *)
\* An assignment or risk request loads its row, runs _validate_wbs_editable
\* (and _validate_resource_code) and only then calls the repository, which
\* adds, changes or deletes the row and commits.  Nothing locks the WBS row
\* between the guard and the write.  One edit is in flight at a time; the
\* submit and approve calls drawn are the ones the service accepts.
EditOps ==
  {"assignment_create", "assignment_update", "assignment_delete",
   "risk_create", "risk_update", "risk_delete"}

\* the guard and validation of the request, run against the current state:
\* the state the atomic method would leave carries the verdict
EditCheck(op, id, data) ==
  CASE op = "assignment_create" -> assignment_create(id, data).resp
    [] op = "assignment_update" -> assignment_update(id, data).resp
    [] op = "assignment_delete" -> assignment_delete(id).resp
    [] op = "risk_create" -> risk_create(id, data).resp
    [] op = "risk_update" -> risk_update(id, data).resp
    [] op = "risk_delete" -> risk_delete(id).resp

\* the WBS item that owns the row the request names
EditOwner(op, id) ==
  CASE op \in {"assignment_create", "risk_create"} -> id
    [] op \in {"assignment_update", "assignment_delete"} ->
         assignments[id].wbs_id
    [] op \in {"risk_update", "risk_delete"} -> risks[id].wbs_id

\* the request arrives: load, guard, validate; a refusal ends the request
BeginEdit(sid, op, id, data) ==
  /\ \A s \in sessions : s.sid # sid /\ s.pc # "checked"
  /\ IF EditCheck(op, id, data) # Ok
     THEN /\ resp' = EditCheck(op, id, data)
          /\ UNCHANGED sessions
     ELSE /\ sessions' = sessions \cup
               {[sid |-> sid, op |-> op, id |-> id, data |-> data,
                 wbs_id |-> EditOwner(op, id), pc |-> "checked"]}
          /\ UNCHANGED resp
  /\ UNCHANGED <<wbs, assignments, assignment_seq, risks, risk_seq,
                 audit_logs, submitted_inputs, approved_by, projects,
                 import_jobs>>

\* repository.create / update / delete: the write and its db.commit()
CommitEdit(s) ==
  /\ s.pc = "checked"
  /\ CASE s.op = "assignment_create" ->
            /\ assignment_seq < MaxAssignments
            /\ assignment_seq' = assignment_seq + 1
            /\ assignments' =
                 ((assignment_seq + 1) :>
                    RepoUpdate(AssignmentDefaults(s.id), s.data)) @@ assignments
            /\ UNCHANGED <<risks, risk_seq>>
       [] s.op = "assignment_update" ->
            /\ assignments' =
                 [assignments EXCEPT ![s.id] = RepoUpdate(@, s.data)]
            /\ UNCHANGED <<assignment_seq, risks, risk_seq>>
       [] s.op = "assignment_delete" ->
            /\ assignments' = RepoDelete(assignments, s.id)
            /\ UNCHANGED <<assignment_seq, risks, risk_seq>>
       [] s.op = "risk_create" ->
            /\ risk_seq < MaxRisks
            /\ risk_seq' = risk_seq + 1
            /\ risks' = ((risk_seq + 1) :> RepoUpdate(RiskDefaults(s.id), s.data))
                          @@ risks
            /\ UNCHANGED <<assignments, assignment_seq>>
       [] s.op = "risk_update" ->
            /\ risks' = [risks EXCEPT ![s.id] = RepoUpdate(@, s.data)]
            /\ UNCHANGED <<assignments, assignment_seq, risk_seq>>
       [] s.op = "risk_delete" ->
            /\ risks' = RepoDelete(risks, s.id)
            /\ UNCHANGED <<assignments, assignment_seq, risk_seq>>
  /\ resp' = Ok
  /\ sessions' = sessions \ {s}
  /\ UNCHANGED <<wbs, audit_logs, submitted_inputs, approved_by, projects,
                 import_jobs>>

BeginAssignmentCreate == \E sid \in SessionIds, w \in WbsIdInputs :
                           BeginEdit(sid, "assignment_create", w, AssignmentBody)
BeginAssignmentUpdate == \E sid \in SessionIds, a \in AssignmentIdInputs :
                           BeginEdit(sid, "assignment_update", a,
                                     [best_estimate |-> 12])
BeginAssignmentDelete == \E sid \in SessionIds, a \in AssignmentIdInputs :
                           BeginEdit(sid, "assignment_delete", a, <<>>)
BeginRiskCreate == \E sid \in SessionIds, w \in WbsIdInputs,
                      d \in RiskCreateInputs :
                     BeginEdit(sid, "risk_create", w, d)
BeginRiskUpdate == \E sid \in SessionIds, r \in RiskIdInputs,
                      d \in RiskUpdateInputs :
                     BeginEdit(sid, "risk_update", r, d)
BeginRiskDelete == \E sid \in SessionIds, r \in RiskIdInputs :
                     BeginEdit(sid, "risk_delete", r, <<>>)
CommitEditStep == \E s \in sessions : CommitEdit(s)

NextGuardConc ==
  \/ EditSubmit
  \/ EditApprove
  \/ BeginAssignmentCreate
  \/ BeginAssignmentUpdate
  \/ BeginAssignmentDelete
  \/ BeginRiskCreate
  \/ BeginRiskUpdate
  \/ BeginRiskDelete
  \/ CommitEditStep

SpecGuardConc == Init /\ [][NextGuardConc]_vars

(* -------------------------- EstimationService -------------------------- *)
\* Amounts are exact fractions held as integers; the unit of each is named
\* where it is computed.  The one inexact step of the code, math.sqrt, is
\* the integer square root at the resolution Precision (binary64 rounding is
\* not modelled).
Sixths == 6
WeightScale == 100
Z_80 == 128
Z_80_Scale == 100

\* sum(...) over the values of a function
RECURSIVE Sum(_)
Sum(f) ==
  IF DOMAIN f = {} THEN 0
  ELSE LET k == CHOOSE x \in DOMAIN f : TRUE
       IN f[k] + Sum([j \in (DOMAIN f) \ {k} |-> f[j]])

\* ResourceAssignment.pert_estimate, in sixths:
\* (best + 4 * likely + worst) / 6
pert_estimate(a) == a.best_estimate + 4 * a.likely_estimate + a.worst_estimate

\* mutation: the deviation is taken from the likely estimate
std_deviation_FromLikely(a) == a.worst_estimate - a.likely_estimate

\* ResourceAssignment.std_deviation, in sixths: (worst - best) / 6
std_deviation(a) == a.worst_estimate - a.best_estimate

\* math.sqrt on the non-negative integers: the largest x with x * x <= n
RECURSIVE Newton(_, _)
Newton(n, x) ==
  LET y == (x + n \div x) \div 2 IN IF y < x THEN Newton(n, y) ELSE x

math_sqrt(n) == IF n = 0 THEN 0 ELSE Newton(n, n)

\* sum(a.pert_estimate for a in assignments), in sixths
total_pert(rows) == Sum([k \in DOMAIN rows |-> pert_estimate(rows[k])])

\* mutation: the deviations are added, not their squares
total_std_Linear(rows) ==
  Precision * Sum([k \in DOMAIN rows |-> std_deviation(rows[k])])

\* math.sqrt(sum(a.std_deviation ** 2 ...)) if variances else 0.0, in units of
\* 1 / (Sixths * Precision)
total_std(rows) ==
  IF DOMAIN rows = {} THEN 0
  ELSE math_sqrt(Precision * Precision
                   * Sum([k \in DOMAIN rows |->
                            std_deviation(rows[k]) * std_deviation(rows[k])]))

\* mutation: the lower limit is clamped at zero
ConfidenceInterval_Clamped(pert_total, std_dev) ==
  LET margin == Z_80 * std_dev
      low == Precision * Z_80_Scale * pert_total - margin
  IN <<IF low < 0 THEN 0 ELSE low,
       Precision * Z_80_Scale * pert_total + margin>>

\* _compute_confidence_interval: (pert - 1.28 * std, pert + 1.28 * std), in
\* units of 1 / (Sixths * Precision * Z_80_Scale); pert_total comes in sixths
\* and std_dev in units of 1 / (Sixths * Precision)
ConfidenceInterval(pert_total, std_dev) ==
  LET margin == Z_80 * std_dev
  IN <<Precision * Z_80_Scale * pert_total - margin,
       Precision * Z_80_Scale * pert_total + margin>>

\* the probability_levels and severity_levels tables: code -> weight, in
\* hundredths (Numeric(5, 2))
probability_levels == ("HIGH" :> 70) @@ ("LOW" :> 30)
severity_levels == ("HIGH" :> 100) @@ ("LOW" :> 25)

\* float(level.weight) if level else 0.0
Weight(levels, code) == IF code \in DOMAIN levels THEN levels[code] ELSE 0

\* mutation: a code that is not set counts with weight one
compute_risk_exposure_UnsetIsOne(risk) ==
  risk.risk_cost
    * (IF risk.probability_code \in {NULL, ""} THEN WeightScale
       ELSE Weight(probability_levels, risk.probability_code))
    * (IF risk.severity_code \in {NULL, ""} THEN WeightScale
       ELSE Weight(severity_levels, risk.severity_code))

\* RiskService.compute_risk_exposure, in units of
\* 1 / (WeightScale * WeightScale)
compute_risk_exposure(risk) ==
  IF risk.probability_code \in {NULL, ""} \/ risk.severity_code \in {NULL, ""}
  THEN 0
  ELSE OrZero(risk.risk_cost)
         * Weight(probability_levels, risk.probability_code)
         * Weight(severity_levels, risk.severity_code)

\* sum(compute_risk_exposure(r) for r in risks)
total_exposure(rows) ==
  Sum([k \in DOMAIN rows |-> compute_risk_exposure(rows[k])])

\* mutation: the rows are not filtered by WBS item
RowsOf_AllRows(table, wbs_id) == [k \in DOMAIN table |-> table[k]]

\* the rows of a table that belong to the WBS item
RowsOf(table, wbs_id) == [k \in GetByWbs(table, wbs_id) |-> table[k]]

\* the response of a read: the body next to the status
OkBody(body) == [code |-> 0, detail |-> <<>>, body |-> body]

\* WBSCostSummary(...) as get_wbs_cost_summary builds it;
\* risk_adjusted_estimate is in units of
\* 1 / (Sixths * WeightScale * WeightScale)
WBSCostSummary(wbs_id) ==
  LET a == RowsOf(assignments, wbs_id)
      r == RowsOf(risks, wbs_id)
      ci == ConfidenceInterval(total_pert(a), total_std(a))
  IN [wbs_id |-> wbs_id,
      wbs_code |-> wbs[wbs_id].wbs_code,
      wbs_title |-> wbs[wbs_id].wbs_title,
      assignment_count |-> Cardinality(DOMAIN a),
      total_pert_estimate |-> total_pert(a),
      total_std_deviation |-> total_std(a),
      confidence_80_low |-> ci[1],
      confidence_80_high |-> ci[2],
      risk_count |-> Cardinality(DOMAIN r),
      total_risk_exposure |-> total_exposure(r),
      risk_adjusted_estimate |->
        WeightScale * WeightScale * total_pert(a)
          + Sixths * total_exposure(r),
      approval_status |-> wbs[wbs_id].approval_status]

\* mutation: a missing WBS item gets an empty summary
get_wbs_cost_summary_EmptyForMissing(wbs_id) ==
  IF wbs_id \notin DOMAIN wbs
  THEN [State EXCEPT !.resp = OkBody([wbs_id |-> wbs_id,
                                      assignment_count |-> 0,
                                      risk_count |-> 0])]
  ELSE [State EXCEPT !.resp = OkBody(WBSCostSummary(wbs_id))]

get_wbs_cost_summary(wbs_id) ==
  IF wbs_id \notin DOMAIN wbs
  THEN Raise(HTTPException(HTTP_404_NOT_FOUND, <<"WBS item not found">>))
  ELSE [State EXCEPT !.resp = OkBody(WBSCostSummary(wbs_id))]

\* the calls of SpecSummary: the edits and the approval workflow of SpecEdit
\* and the cost summary read
CostSummary == \E w \in WbsIdInputs : Returns(get_wbs_cost_summary(w))

NextSummary ==
  \/ EditSubmit
  \/ EditReject
  \/ AssignmentCreate
  \/ AssignmentUpdate
  \/ AssignmentDelete
  \/ RiskCreate
  \/ RiskUpdate
  \/ RiskDelete
  \/ CostSummary

SpecSummary == Init /\ [][NextSummary]_vars

(* ------------------- the aggregates on drawn rows ----------------------- *)
\* three-point estimates as stored: no order between best, likely and worst
\* is enforced (AssignmentCreate only asks for ge=0)
Estimates ==
  { [best_estimate |-> 0, likely_estimate |-> 30, worst_estimate |-> 60],
    [best_estimate |-> 6, likely_estimate |-> 12, worst_estimate |-> 18],
    [best_estimate |-> 0, likely_estimate |-> 0, worst_estimate |-> 60],
    [best_estimate |-> 50, likely_estimate |-> 20, worst_estimate |-> 5] }

\* the tables an estimation call can find: up to MaxRows rows of any WBS item
AssignmentTables ==
  UNION { [1..n -> { RepoUpdate(AssignmentDefaults(w), e) :
                       w \in WbsIds, e \in Estimates }] : n \in 0..MaxRows }

\* the state of Init with the assignments table drawn
InitPert ==
  /\ wbs = [w \in WbsIds |->
              [project_id |-> 1, wbs_code |-> w, wbs_title |-> "Task",
               notes |-> NULL,
               approval_status |-> "draft", approver |-> NULL,
               approver_date |-> NoDate, estimate_revision |-> 0]]
  /\ assignments \in AssignmentTables
  /\ assignment_seq = Len(assignments)
  /\ risks = <<>>
  /\ risk_seq = 0
  /\ audit_logs = <<>>
  /\ resp = [code |-> 0, detail |-> <<"no call yet">>]
  /\ sessions = {}
  /\ submitted_inputs = [w \in WbsIds |-> <<{}, {}>>]
  /\ approved_by = [w \in WbsIds |-> <<NULL, NoDate>>]
  /\ projects = [p \in ProjectIds |-> ProjectDefaults]
  /\ import_jobs = <<>>

\* a read: the caller gets the response, no table is written
Read(post) ==
  /\ resp' = post.resp
  /\ UNCHANGED <<wbs, assignments, assignment_seq, risks, risk_seq,
                 audit_logs, sessions, submitted_inputs, approved_by,
                 projects, import_jobs>>

WbsEstimation == \E w \in WbsIdInputs : Read(get_wbs_cost_summary(w))

NextPert == WbsEstimation

SpecPert == InitPert /\ [][NextPert]_vars

\* RiskService.get_with_exposure: the risk with its computed exposure
get_with_exposure(risk_id) ==
  IF risk_id \notin DOMAIN risks
  THEN Raise(HTTPException(HTTP_404_NOT_FOUND, <<"Risk not found">>))
  ELSE [State EXCEPT !.resp =
          OkBody([risk_id |-> risk_id, risk |-> risks[risk_id],
                  risk_exposure |-> compute_risk_exposure(risks[risk_id])])]

\* risks as stored: the codes may be unset (None or empty) or name no level
RiskRows ==
  { [wbs_id |-> w, risk_cost |-> c, probability_code |-> p,
     severity_code |-> v] :
      w \in WbsIds, c \in {1000, 250},
      p \in {NULL, "", "HIGH", "UNKNOWN"}, v \in {NULL, "LOW", "UNKNOWN"} }

RiskTables == UNION { [1..n -> RiskRows] : n \in 0..MaxRiskRows }

\* the state of Init with the risks table drawn
InitExposure ==
  /\ wbs = [w \in WbsIds |->
              [project_id |-> 1, wbs_code |-> w, wbs_title |-> "Task",
               notes |-> NULL,
               approval_status |-> "draft", approver |-> NULL,
               approver_date |-> NoDate, estimate_revision |-> 0]]
  /\ assignments = <<>>
  /\ assignment_seq = 0
  /\ risks \in RiskTables
  /\ risk_seq = Len(risks)
  /\ audit_logs = <<>>
  /\ resp = [code |-> 0, detail |-> <<"no call yet">>]
  /\ sessions = {}
  /\ submitted_inputs = [w \in WbsIds |-> <<{}, {}>>]
  /\ approved_by = [w \in WbsIds |-> <<NULL, NoDate>>]
  /\ projects = [p \in ProjectIds |-> ProjectDefaults]
  /\ import_jobs = <<>>

RiskExposure == \E r \in 1..(MaxRiskRows + 1) : Read(get_with_exposure(r))

NextExposure ==
  \/ RiskExposure
  \/ WbsEstimation

SpecExposure == InitExposure /\ [][NextExposure]_vars

(* ----------------------------- breakdowns ------------------------------ *)
\* the rows of a table as the list a repository query returns, by id
RECURSIVE AsList(_)
AsList(table) ==
  IF DOMAIN table = {} THEN <<>>
  ELSE LET k == CHOOSE x \in DOMAIN table : \A y \in DOMAIN table : x <= y
       IN <<table[k]>> \o AsList([j \in (DOMAIN table) \ {k} |-> table[j]])

\* the cost_types table: code -> description
cost_types == ("LABOR" :> "Labour")

\* a.cost_type_code or "UNASSIGNED"
CodeOr(a, field, fallback) ==
  IF fallback /\ a[field] \in {NULL, ""} THEN "UNASSIGNED" ELSE a[field]

\* the groups dict after the loop over the first i rows: one entry per code,
\* in the order the codes first occur
RECURSIVE Groups(_, _, _, _)
Groups(list, i, field, fallback) ==
  IF i = 0 THEN <<>>
  ELSE LET g == Groups(list, i - 1, field, fallback)
           code == CodeOr(list[i], field, fallback)
       IN IF \E n \in DOMAIN g : g[n].code = code
          THEN [n \in DOMAIN g |->
                  IF g[n].code = code
                  THEN [g[n] EXCEPT
                          !.total_pert = @ + pert_estimate(list[i]),
                          !.count = @ + 1]
                  ELSE g[n]]
          ELSE Append(g, [code |-> code,
                          total_pert |-> pert_estimate(list[i]),
                          count |-> 1])

\* mutation: the entries are ordered by ascending total
Sorted_Ascending(result) ==
  LET RECURSIVE Ins(_, _)
      Ins(sorted, x) ==
        IF sorted = <<>> THEN <<x>>
        ELSE IF Head(sorted).total_pert <= x.total_pert
        THEN <<Head(sorted)>> \o Ins(Tail(sorted), x)
        ELSE <<x>> \o sorted
      RECURSIVE Run(_)
      Run(n) == IF n = 0 THEN <<>> ELSE Ins(Run(n - 1), result[n])
  IN Run(Len(result))

\* sorted(result, key=lambda x: x.total_pert, reverse=True): descending and
\* stable (entries of equal total keep their order)
Sorted(result) ==
  LET RECURSIVE Ins(_, _)
      Ins(sorted, x) ==
        IF sorted = <<>> THEN <<x>>
        ELSE IF Head(sorted).total_pert >= x.total_pert
        THEN <<Head(sorted)>> \o Ins(Tail(sorted), x)
        ELSE <<x>> \o sorted
      RECURSIVE Run(_)
      Run(n) == IF n = 0 THEN <<>> ELSE Ins(Run(n - 1), result[n])
  IN Run(Len(result))

\* the CostBreakdownItem of a group: total_pert in sixths
BreakdownItem(g, descriptions) ==
  [code |-> g.code,
   description |-> IF g.code = "UNASSIGNED" THEN "Unassigned"
                   ELSE IF g.code \in DOMAIN descriptions
                   THEN descriptions[g.code]
                   ELSE g.code,
   total_pert |-> g.total_pert,
   assignment_count |-> g.count]

\* EstimationService._compute_cost_type_breakdown
compute_cost_type_breakdown(list) ==
  LET g == Groups(list, Len(list), "cost_type_code", TRUE)
  IN Sorted([n \in DOMAIN g |-> BreakdownItem(g[n], cost_types)])

\* assignments of a project with their cost type and a PERT estimate of 100,
\* 150 or 200
BreakdownRows ==
  { RepoUpdate(AssignmentDefaults(1),
               [cost_type_code |-> c, best_estimate |-> e,
                likely_estimate |-> e, worst_estimate |-> e]) :
      c \in {"LABOR", "MATERIAL", NULL}, e \in {100, 150, 200} }

InitBreakdown ==
  /\ wbs = [w \in WbsIds |->
              [project_id |-> 1, wbs_code |-> w, wbs_title |-> "Task",
               notes |-> NULL,
               approval_status |-> "draft", approver |-> NULL,
               approver_date |-> NoDate, estimate_revision |-> 0]]
  /\ assignments \in UNION { [1..n -> BreakdownRows] : n \in 0..MaxRows }
  /\ assignment_seq = Len(assignments)
  /\ risks = <<>>
  /\ risk_seq = 0
  /\ audit_logs = <<>>
  /\ resp = [code |-> 0, detail |-> <<"no call yet">>]
  /\ sessions = {}
  /\ submitted_inputs = [w \in WbsIds |-> <<{}, {}>>]
  /\ approved_by = [w \in WbsIds |-> <<NULL, NoDate>>]
  /\ projects = [p \in ProjectIds |-> ProjectDefaults]
  /\ import_jobs = <<>>

\* the by_cost_type part of the project estimate
CostTypeBreakdown ==
  Read([State EXCEPT !.resp =
          OkBody([by_cost_type |->
                    compute_cost_type_breakdown(AsList(assignments))])])

NextBreakdown == CostTypeBreakdown

SpecBreakdown == InitBreakdown /\ [][NextBreakdown]_vars

(* -------------------------- project estimate --------------------------- *)
\* the regions, resources and suppliers tables: code -> description (name)
regions == ("EU" :> "Europe")
resources == ("RES001" :> "Engineer") @@ ("RES002" :> "Crane")
suppliers == ("ACME" :> "Acme Ltd")

\* EstimationService._compute_region_breakdown
compute_region_breakdown(list) ==
  LET g == Groups(list, Len(list), "region_code", TRUE)
  IN Sorted([n \in DOMAIN g |-> BreakdownItem(g[n], regions)])

\* mutation: one entry per assignment, the codes are not grouped
compute_resource_breakdown_PerRow(list) ==
  Sorted([n \in DOMAIN list |->
            [code |-> list[n].resource_code,
             description |-> IF list[n].resource_code \in DOMAIN resources
                             THEN resources[list[n].resource_code]
                             ELSE list[n].resource_code,
             total_pert |-> pert_estimate(list[n]),
             assignment_count |-> 1]])

\* EstimationService._compute_resource_breakdown: the code is taken as it is
\* and every code goes through the lookup
compute_resource_breakdown(list) ==
  LET g == Groups(list, Len(list), "resource_code", FALSE)
  IN Sorted([n \in DOMAIN g |->
               [code |-> g[n].code,
                description |-> IF g[n].code \in DOMAIN resources
                                THEN resources[g[n].code] ELSE g[n].code,
                total_pert |-> g[n].total_pert,
                assignment_count |-> g[n].count]])

\* mutation: the supplier code is taken as it is, missing or not
compute_supplier_breakdown_NoFallback(list) ==
  LET g == Groups(list, Len(list), "supplier_code", FALSE)
  IN Sorted([n \in DOMAIN g |->
               [code |-> g[n].code,
                name |-> IF g[n].code \in DOMAIN suppliers
                         THEN suppliers[g[n].code] ELSE g[n].code,
                total_pert |-> g[n].total_pert,
                assignment_count |-> g[n].count]])

\* EstimationService._compute_supplier_breakdown: SupplierBreakdownItem has a
\* name in place of the description
compute_supplier_breakdown(list) ==
  LET g == Groups(list, Len(list), "supplier_code", TRUE)
  IN Sorted([n \in DOMAIN g |->
               [code |-> g[n].code,
                name |-> IF g[n].code = "UNASSIGNED" THEN "Unassigned"
                         ELSE IF g[n].code \in DOMAIN suppliers
                         THEN suppliers[g[n].code] ELSE g[n].code,
                total_pert |-> g[n].total_pert,
                assignment_count |-> g[n].count]])

\* WBSRepository.get_by_project: the ids of the project's WBS items, in order
\* (outline_level is not modelled, all items are on one level)
RECURSIVE SortedIds(_)
SortedIds(ids) ==
  IF ids = {} THEN <<>>
  ELSE LET k == CHOOSE x \in ids : \A y \in ids : x <= y
       IN <<k>> \o SortedIds(ids \ {k})

\* the limit get_project_estimation passes to WBSRepository.get_by_project
wbs_items_limit == 10000

WbsByProject(project_id) ==
  LET all == SortedIds({w \in DOMAIN wbs : wbs[w].project_id = project_id})
  IN IF Len(all) <= wbs_items_limit THEN all
     ELSE SubSeq(all, 1, wbs_items_limit)

\* AssignmentRepository.get_by_project / RiskRepository.get_by_project: the
\* rows joined to the project's WBS items, ordered by WBS id, then row id
RECURSIVE RowsOfItems(_, _)
RowsOfItems(table, items) ==
  IF items = <<>> THEN <<>>
  ELSE AsList(RowsOf(table, Head(items))) \o RowsOfItems(table, Tail(items))

GetByProject(table, project_id) ==
  RowsOfItems(table, WbsByProject(project_id))

\* the rows of a list that satisfy the filter, in order
RECURSIVE Filter(_, _)
Filter(list, wbs_id) ==
  IF list = <<>> THEN <<>>
  ELSE (IF Head(list).wbs_id = wbs_id THEN <<Head(list)>> ELSE <<>>)
         \o Filter(Tail(list), wbs_id)

\* mutation: the summary of an item counts the assignments of the project
WbsSummaryOf_AllAssignments(wbs_id, assignment_list, risk_list) ==
  LET a == assignment_list
      r == Filter(risk_list, wbs_id)
      ci == ConfidenceInterval(total_pert(a), total_std(a))
  IN [wbs_id |-> wbs_id,
      wbs_code |-> wbs[wbs_id].wbs_code,
      wbs_title |-> wbs[wbs_id].wbs_title,
      assignment_count |-> Len(a),
      total_pert_estimate |-> total_pert(a),
      total_std_deviation |-> total_std(a),
      confidence_80_low |-> ci[1],
      confidence_80_high |-> ci[2],
      risk_count |-> Len(r),
      total_risk_exposure |-> total_exposure(r),
      risk_adjusted_estimate |->
        WeightScale * WeightScale * total_pert(a)
          + Sixths * total_exposure(r),
      approval_status |-> wbs[wbs_id].approval_status]

\* the WBSCostSummary built in the loop of get_project_estimation, from the
\* project's lists filtered on a.wbs_id == wbs.id
WbsSummaryOf(wbs_id, assignment_list, risk_list) ==
  LET a == Filter(assignment_list, wbs_id)
      r == Filter(risk_list, wbs_id)
      ci == ConfidenceInterval(total_pert(a), total_std(a))
  IN [wbs_id |-> wbs_id,
      wbs_code |-> wbs[wbs_id].wbs_code,
      wbs_title |-> wbs[wbs_id].wbs_title,
      assignment_count |-> Len(a),
      total_pert_estimate |-> total_pert(a),
      total_std_deviation |-> total_std(a),
      confidence_80_low |-> ci[1],
      confidence_80_high |-> ci[2],
      risk_count |-> Len(r),
      total_risk_exposure |-> total_exposure(r),
      risk_adjusted_estimate |->
        WeightScale * WeightScale * total_pert(a)
          + Sixths * total_exposure(r),
      approval_status |-> wbs[wbs_id].approval_status]

\* mutation: the estimate is built without the supplier breakdown
ProjectEstimationSummary_NoSupplier(project_id) ==
  LET a == GetByProject(assignments, project_id)
      r == GetByProject(risks, project_id)
      ci == ConfidenceInterval(total_pert(a), total_std(a))
  IN [project_id |-> project_id,
      project_name |-> projects[project_id].project_name,
      total_wbs_items |-> Len(WbsByProject(project_id)),
      total_assignments |-> Len(a),
      total_pert_estimate |-> total_pert(a),
      total_std_deviation |-> total_std(a),
      confidence_80_low |-> ci[1],
      confidence_80_high |-> ci[2],
      total_risks |-> Len(r),
      total_risk_exposure |-> total_exposure(r),
      risk_adjusted_estimate |->
        WeightScale * WeightScale * total_pert(a)
          + Sixths * total_exposure(r),
      by_cost_type |-> compute_cost_type_breakdown(a),
      by_region |-> compute_region_breakdown(a),
      by_resource |-> compute_resource_breakdown(a),
      wbs_summaries |->
        [i \in DOMAIN WbsByProject(project_id) |->
           WbsSummaryOf(WbsByProject(project_id)[i], a, r)]]

\* ProjectEstimationSummary(...) as get_project_estimation builds it
ProjectEstimationSummary(project_id) ==
  LET wbs_items == WbsByProject(project_id)
      a == GetByProject(assignments, project_id)
      r == GetByProject(risks, project_id)
      ci == ConfidenceInterval(total_pert(a), total_std(a))
  IN [project_id |-> project_id,
      project_name |-> projects[project_id].project_name,
      total_wbs_items |-> Len(wbs_items),
      total_assignments |-> Len(a),
      total_pert_estimate |-> total_pert(a),
      total_std_deviation |-> total_std(a),
      confidence_80_low |-> ci[1],
      confidence_80_high |-> ci[2],
      total_risks |-> Len(r),
      total_risk_exposure |-> total_exposure(r),
      risk_adjusted_estimate |->
        WeightScale * WeightScale * total_pert(a)
          + Sixths * total_exposure(r),
      by_cost_type |-> compute_cost_type_breakdown(a),
      by_region |-> compute_region_breakdown(a),
      by_resource |-> compute_resource_breakdown(a),
      by_supplier |-> compute_supplier_breakdown(a),
      wbs_summaries |->
        [i \in DOMAIN wbs_items |-> WbsSummaryOf(wbs_items[i], a, r)]]

get_project_estimation(project_id) ==
  IF project_id \notin DOMAIN projects
  THEN Raise(HTTPException(HTTP_404_NOT_FOUND, <<"Project not found">>))
  ELSE [State EXCEPT !.resp = OkBody(ProjectEstimationSummary(project_id))]

\* how an assignment may be classified: every code resolving, no optional
\* code, codes that name no row of their table, and empty codes
Codings ==
  { [resource_code |-> "RES001", supplier_code |-> "ACME",
     cost_type_code |-> "LABOR", region_code |-> "EU"],
    [resource_code |-> "RES002", supplier_code |-> NULL,
     cost_type_code |-> NULL, region_code |-> NULL],
    [resource_code |-> "RES009", supplier_code |-> "GONE",
     cost_type_code |-> "MATERIAL", region_code |-> "APAC"],
    [resource_code |-> "RES001", supplier_code |-> "",
     cost_type_code |-> "", region_code |-> ""] }

ProjectEstimates ==
  { [best_estimate |-> 6, likely_estimate |-> 12, worst_estimate |-> 18],
    [best_estimate |-> 0, likely_estimate |-> 30, worst_estimate |-> 60] }

ProjectAssignmentRows ==
  { RepoUpdate(RepoUpdate(AssignmentDefaults(w), c), e) :
      w \in WbsIds, c \in Codings, e \in ProjectEstimates }

ProjectRiskRows ==
  { [wbs_id |-> w, risk_cost |-> 1000, probability_code |-> p,
     severity_code |-> "LOW"] : w \in WbsIds, p \in {"HIGH", NULL} }

\* the WBS items spread over the projects, with drawn assignments and risks
InitProject ==
  /\ wbs \in [WbsIds ->
                { [project_id |-> p, wbs_code |-> 1, wbs_title |-> "Task",
                   notes |-> NULL, approval_status |-> "draft",
                   approver |-> NULL, approver_date |-> NoDate,
                   estimate_revision |-> 0] : p \in ProjectIds }]
  /\ assignments \in
       UNION { [1..n -> ProjectAssignmentRows] : n \in 0..MaxProjectRows }
  /\ assignment_seq = Len(assignments)
  /\ risks \in UNION { [1..n -> ProjectRiskRows] : n \in 0..1 }
  /\ risk_seq = Len(risks)
  /\ audit_logs = <<>>
  /\ resp = [code |-> 0, detail |-> <<"no call yet">>]
  /\ sessions = {}
  /\ submitted_inputs = [w \in WbsIds |-> <<{}, {}>>]
  /\ approved_by = [w \in WbsIds |-> <<NULL, NoDate>>]
  /\ projects = [p \in ProjectIds |-> ProjectDefaults]
  /\ import_jobs = <<>>

ProjectEstimation ==
  \E p \in 1..(MaxProjects + 1) : Read(get_project_estimation(p))

NextProject == ProjectEstimation

SpecProject == InitProject /\ [][NextProject]_vars

(* ------- SpecDelete: WBS items and projects are deleted ---------------- *)
DeleteWbs == \E w \in WbsIdInputs : Returns(delete_wbs(w))

\* the projects row goes with its WBS items and its import jobs
\* (Project.import_jobs, cascade="all, delete-orphan")
DeleteProject ==
  \E p \in 1..(MaxProjects + 1) :
    LET post == project_delete(p)
    IN /\ wbs' = post.wbs
       /\ assignments' = post.assignments
       /\ risks' = post.risks
       /\ resp' = post.resp
       /\ projects' = [q \in (DOMAIN projects) \ {p} |-> projects[q]]
       /\ import_jobs' = [j \in {i \in DOMAIN import_jobs :
                                   import_jobs[i].project_id # p}
                            |-> import_jobs[j]]
       /\ UNCHANGED <<assignment_seq, risk_seq, audit_logs, sessions,
                      submitted_inputs, approved_by>>

\* the step of a re-import that clears the WBS items of the project
ClearProject ==
  \E p \in DOMAIN projects, o \in BulkDeleteOutcomes :
    Returns(delete_by_project(p, o))

NextDelete ==
  \/ EditSubmit
  \/ EditApprove
  \/ AssignmentCreate
  \/ RiskCreate
  \/ DeleteWbs
  \/ DeleteProject
  \/ ClearProject

SpecDelete == Init /\ [][NextDelete]_vars

(* ----------------------------- ImportService --------------------------- *)
\* what a call of the import service reads and writes: the tables of State,
\* the projects and the import jobs
ImportState ==
  [db |-> State, projects |-> projects, import_jobs |-> import_jobs]

\* _update_progress: status and progress of the job are written
UpdateProgress(jobs, job_id, status, progress) ==
  [jobs EXCEPT ![job_id].status = status, ![job_id].progress = progress]

\* _fail_job: the job is marked failed with the message
FailJob(jobs, job_id, error_message) ==
  [jobs EXCEPT ![job_id].status = "failed",
               ![job_id].error_message = error_message]

\* start_import: the project is marked importing and a pending job is
\* created for it; a missing project or a failed upload writes nothing
start_import(project_id, upload_ok) ==
  IF project_id \notin DOMAIN projects
  THEN [ImportState EXCEPT
          !.db = Raise(HTTPException(HTTP_404_NOT_FOUND,
                                     <<"Project not found">>))]
  ELSE IF ~upload_ok
  THEN [ImportState EXCEPT
          !.db = Raise([code |-> 500,
                        detail |-> <<"Failed to upload file to storage">>])]
  ELSE [ImportState EXCEPT
          !.db = [State EXCEPT !.resp = Ok],
          !.projects[project_id].status = "importing",
          !.import_jobs =
             Append(import_jobs,
                    [project_id |-> project_id, status |-> "pending",
                     progress |-> 0, error_message |-> NULL])]

\* what the file of a job turns out to be: S3 returns nothing, the parser
\* raises, the creation of the records raises, or the import goes through
ImportOutcomes == {"download_failed", "parse_failed", "create_failed", "ok"}

\* the tasks of a parsed file
ParsedFiles == { <<>>, <<[wbs_code |-> 1, wbs_title |-> "Imported"]>> }

\* _create_wbs_records: one WBS row per task, with the column defaults of
\* WBS; the id is the one after the largest id of the table
CreateWbsRecords(db, project_id, tasks) ==
  LET top == IF DOMAIN db.wbs = {} THEN 0
             ELSE CHOOSE x \in DOMAIN db.wbs : \A y \in DOMAIN db.wbs : y <= x
  IN [db EXCEPT
        !.wbs = [i \in (top + 1)..(top + Len(tasks)) |->
                   [project_id |-> project_id,
                    wbs_code |-> tasks[i - top].wbs_code,
                    wbs_title |-> tasks[i - top].wbs_title,
                    notes |-> NULL, approval_status |-> "draft",
                    approver |-> NULL, approver_date |-> NoDate,
                    estimate_revision |-> 0]] @@ db.wbs]

\* the except branch of process_import: the job is failed and the project is
\* marked import_failed
ImportFailed(db, jobs, job_id, error_message) ==
  [db |-> db,
   projects |-> [projects EXCEPT
                   ![import_jobs[job_id].project_id].status = "import_failed"],
   import_jobs |-> FailJob(jobs, job_id, error_message)]

\* ImportService.process_import
process_import(job_id, outcome, tasks, bulk) ==
  IF job_id \notin DOMAIN import_jobs THEN ImportState
  ELSE
    LET project_id == import_jobs[job_id].project_id
        downloading == UpdateProgress(
                         UpdateProgress(import_jobs, job_id, "parsing", 10),
                         job_id, "parsing", 15)
        parsing == UpdateProgress(downloading, job_id, "parsing", 20)
        creating == UpdateProgress(parsing, job_id, "creating_records", 50)
        cleared == delete_by_project(project_id, bulk)
    IN IF project_id \notin DOMAIN projects
       THEN [ImportState EXCEPT
               !.import_jobs = FailJob(import_jobs, job_id,
                                       "Project not found")]
       ELSE IF outcome = "download_failed"
       THEN [ImportState EXCEPT
               !.import_jobs = FailJob(downloading, job_id,
                                       "Failed to download file from S3")]
       ELSE IF outcome = "parse_failed"
       THEN ImportFailed(State, parsing, job_id, "parse error")
       ELSE IF cleared.resp # Ok
       THEN ImportFailed(State, creating, job_id, "IntegrityError")
       ELSE IF outcome = "create_failed"
       THEN ImportFailed([cleared EXCEPT !.resp = resp], creating, job_id,
                         "create error")
       ELSE [db |-> [CreateWbsRecords(cleared, project_id, tasks)
                       EXCEPT !.resp = resp],
             projects |-> [projects EXCEPT ![project_id].status = "imported"],
             import_jobs |-> UpdateProgress(
                               UpdateProgress(creating, job_id,
                                              "creating_records", 95),
                               job_id, "completed", 100)]

(* --------- SpecImport: imports are started and processed --------------- *)
\* the call returns: its writes to the tables, the projects and the jobs are
\* installed
ImportReturns(post) ==
  /\ Len(post.import_jobs) <= MaxJobs
  /\ projects' = post.projects
  /\ import_jobs' = post.import_jobs
  /\ wbs' = post.db.wbs
  /\ assignments' = post.db.assignments
  /\ risks' = post.db.risks
  /\ resp' = post.db.resp
  /\ UNCHANGED <<assignment_seq, risk_seq, audit_logs, sessions,
                 submitted_inputs, approved_by>>

StartImport ==
  \E p \in 1..(MaxProjects + 1), upload_ok \in BOOLEAN :
    ImportReturns(start_import(p, upload_ok))

\* the worker runs the task that start_import dispatched for the job; a task
\* for an id that names no job finds nothing
ProcessImport ==
  \E j \in 1..(MaxJobs + 1), outcome \in ImportOutcomes,
     tasks \in ParsedFiles, bulk \in BulkDeleteOutcomes :
    /\ j \in DOMAIN import_jobs => import_jobs[j].status = "pending"
    /\ ImportReturns(process_import(j, outcome, tasks, bulk))

NextImport ==
  \/ StartImport
  \/ ProcessImport
  \/ AssignmentCreate

SpecImport == Init /\ [][NextImport]_vars

(* ------------------------------ properties ----------------------------- *)
Editable == {"draft", "rejected"}
Blocked == {"submitted", "approved"}

TransitionTable ==
  { <<"draft", "submitted">>, <<"submitted", "approved">>,
    <<"submitted", "rejected">>, <<"rejected", "draft">> }

StatusOf(w) == wbs[w].approval_status

\* audit rows of one WBS item, oldest first
RECURSIVE ActionsOf(_, _)
ActionsOf(log, w) ==
  IF log = <<>> THEN <<>>
  ELSE IF Head(log).entity_id = w
       THEN <<Head(log).action>> \o ActionsOf(Tail(log), w)
       ELSE ActionsOf(Tail(log), w)

CountOf(seq, x) == Cardinality({i \in DOMAIN seq : seq[i] = x})

(* ---- C1 ---- *)
\* the verdict of the guard on one call against the item w: the call is
\* refused with 409 exactly when w is submitted or approved, the refusal
\* names that status and writes nothing
GuardRule(post, w, what) ==
  /\ (post.resp.code = HTTP_409_CONFLICT) <=> (StatusOf(w) \in Blocked)
  /\ StatusOf(w) \in Blocked =>
       post = Raise(HTTPException(HTTP_409_CONFLICT, <<what, StatusOf(w)>>))

\* C1: every create, update and delete of an assignment or a risk is refused
\* with HTTP 409 if and only if the owning WBS item is submitted or approved,
\* the 409 names that status and nothing is written; on a draft or rejected
\* item the same call (with a known resource code) succeeds and is written.
C1_EditGuard ==
  /\ \A w \in WbsIds, d \in AssignmentCreateInputs :
       LET post == assignment_create(w, d) IN
         /\ GuardRule(post, w, AssignmentBlocked)
         /\ (StatusOf(w) \in Editable /\ ValidateResourceCode(d.resource_code))
              => /\ post.resp = Ok
                 /\ CountByWbs(post.assignments, w)
                      = CountByWbs(assignments, w) + 1
  /\ \A a \in DOMAIN assignments, d \in AssignmentUpdateInputs :
       LET post == assignment_update(a, d)
           w == assignments[a].wbs_id IN
         /\ GuardRule(post, w, AssignmentBlocked)
         /\ (StatusOf(w) \in Editable /\ "resource_code" \notin DOMAIN d)
              => /\ post.resp = Ok
                 /\ \A f \in DOMAIN d : post.assignments[a][f] = d[f]
  /\ \A a \in DOMAIN assignments :
       LET post == assignment_delete(a)
           w == assignments[a].wbs_id IN
         /\ GuardRule(post, w, AssignmentBlocked)
         /\ StatusOf(w) \in Editable
              => post.resp = Ok /\ a \notin DOMAIN post.assignments
  /\ \A w \in WbsIds, d \in RiskCreateInputs :
       LET post == risk_create(w, d) IN
         /\ GuardRule(post, w, RiskBlocked)
         /\ StatusOf(w) \in Editable
              => /\ post.resp = Ok
                 /\ CountByWbs(post.risks, w) = CountByWbs(risks, w) + 1
  /\ \A r \in DOMAIN risks, d \in RiskUpdateInputs :
       LET post == risk_update(r, d)
           w == risks[r].wbs_id IN
         /\ GuardRule(post, w, RiskBlocked)
         /\ StatusOf(w) \in Editable
              => /\ post.resp = Ok
                 /\ \A f \in DOMAIN d : post.risks[r][f] = d[f]
  /\ \A r \in DOMAIN risks :
       LET post == risk_delete(r)
           w == risks[r].wbs_id IN
         /\ GuardRule(post, w, RiskBlocked)
         /\ StatusOf(w) \in Editable
              => post.resp = Ok /\ r \notin DOMAIN post.risks

\* a risk call was refused on an approved item, after an assignment had been
\* updated while its item was editable
C1_Witness ==
  /\ resp = HTTPException(HTTP_409_CONFLICT, <<RiskBlocked, "approved">>)
  /\ \E r \in DOMAIN risks : StatusOf(risks[r].wbs_id) = "approved"
  /\ \E a \in DOMAIN assignments : assignments[a].best_estimate = 12

(* ---- C2 ---- *)
\* the call leaves every status alone, or moves the item w to target along
\* a pair of the table
Moves(post, w, target) ==
  \A x \in WbsIds :
    \/ post.wbs[x].approval_status = StatusOf(x)
    \/ /\ x = w
       /\ post.wbs[x].approval_status = target
       /\ <<StatusOf(x), target>> \in TransitionTable

StaysPut(post) ==
  \A x \in WbsIds : post.wbs[x].approval_status = StatusOf(x)

\* C2: every call leaves approval_status of every item unchanged or moves
\* the item it names along draft->submitted (submit), submitted->approved
\* (approve), submitted->rejected (reject) or rejected->draft (reset); no
\* other pair occurs, and no other call changes a status.
C2_TransitionTable ==
  /\ \A w \in WbsIdInputs, u \in Submitters :
       /\ Moves(submit_for_approval(w, u), w, "submitted")
       /\ Moves(reset_to_draft(w, u), w, "draft")
  /\ \A w \in WbsIdInputs, u \in Approvers, t \in Times :
       Moves(approve(w, u, t), w, "approved")
  /\ \A w \in WbsIdInputs, c \in Comments :
       Moves(reject(w, Reviewer, c), w, "rejected")
  /\ \A w \in WbsIdInputs, d \in WBSUpdateInputs : StaysPut(update_wbs(w, d))
  /\ \A w \in WbsIdInputs : StaysPut(assignment_create(w, AssignmentBody))
  /\ \A a \in AssignmentIdInputs : StaysPut(assignment_delete(a))

\* one item went draft -> submitted -> rejected -> draft while another one
\* was submitted
C2_Witness ==
  \E w, x \in WbsIds :
    /\ ActionsOf(audit_logs, w) = <<"SUBMIT", "REJECT", "RESET">>
    /\ StatusOf(w) = "draft"
    /\ StatusOf(x) = "submitted"

(* ---- C3 ---- *)
\* the refusal of a transition from the current status of w to target
InvalidTransition(w, target) ==
  HTTPException(HTTP_409_CONFLICT,
    <<"Cannot transition from", StatusOf(w), "to", target>>)

\* C3: whatever the current status of an item, a submit, approve, reject or
\* reset whose (current, target) pair is not in the transition table is
\* refused with HTTP 409, the error names the current and the requested
\* status, and nothing is written.
C3_InvalidTransition ==
  \A w \in WbsIds :
    /\ <<StatusOf(w), "submitted">> \notin TransitionTable =>
         \A u \in Submitters :
           submit_for_approval(w, u) = Raise(InvalidTransition(w, "submitted"))
    /\ <<StatusOf(w), "approved">> \notin TransitionTable =>
         \A u \in Approvers, t \in Times :
           approve(w, u, t) = Raise(InvalidTransition(w, "approved"))
    /\ <<StatusOf(w), "rejected">> \notin TransitionTable =>
         \A c \in Comments :
           reject(w, Reviewer, c) = Raise(InvalidTransition(w, "rejected"))
    /\ <<StatusOf(w), "draft">> \notin TransitionTable =>
         \A u \in Submitters :
           reset_to_draft(w, u) = Raise(InvalidTransition(w, "draft"))

\* a reset was refused on a submitted item
C3_Witness ==
  /\ resp = HTTPException(HTTP_409_CONFLICT,
              <<"Cannot transition from", "submitted", "to", "draft">>)
  /\ \E w \in WbsIds : StatusOf(w) = "submitted"

(* ---- C4 ---- *)
\* the call is refused and leaves the item w approved
RefusedOnApproved(post, w) ==
  /\ post.resp.code = HTTP_409_CONFLICT
  /\ post.wbs[w].approval_status = "approved"

\* C4: an item whose approve has succeeded is approved in every later state:
\* on an approved item every submit, approve, reject and reset fails with
\* 409 and every other call leaves approval_status approved.
C4_ApprovedTerminal ==
  \A w \in WbsIds :
    /\ approved_by[w] # <<NULL, NoDate>> => StatusOf(w) = "approved"
    /\ StatusOf(w) = "approved" =>
         /\ \A u \in Submitters :
              /\ RefusedOnApproved(submit_for_approval(w, u), w)
              /\ RefusedOnApproved(reset_to_draft(w, u), w)
         /\ \A u \in Approvers, t \in Times :
              RefusedOnApproved(approve(w, u, t), w)
         /\ \A c \in Comments : RefusedOnApproved(reject(w, Reviewer, c), w)
         /\ \A x \in WbsIdInputs :
              /\ \A u \in Submitters :
                   /\ submit_for_approval(x, u).wbs[w].approval_status
                        = "approved"
                   /\ reset_to_draft(x, u).wbs[w].approval_status = "approved"
              /\ \A u \in Approvers, t \in Times :
                   approve(x, u, t).wbs[w].approval_status = "approved"
              /\ \A c \in Comments :
                   reject(x, Reviewer, c).wbs[w].approval_status = "approved"
              /\ \A d \in WBSUpdateInputs :
                   update_wbs(x, d).wbs[w].approval_status = "approved"
              /\ assignment_create(x, AssignmentBody).wbs[w].approval_status
                   = "approved"
         /\ \A a \in AssignmentIdInputs :
              assignment_delete(a).wbs[w].approval_status = "approved"

\* a reject was refused on an item that had been approved two calls earlier
C4_Witness ==
  /\ resp = HTTPException(HTTP_409_CONFLICT,
              <<"Cannot transition from", "approved", "to", "rejected">>)
  /\ \E w \in WbsIds :
       /\ StatusOf(w) = "approved"
       /\ ActionsOf(audit_logs, w) = <<"SUBMIT", "APPROVE">>

(* ---- C5 ---- *)
\* the assignments and risks a WBS item owns, with their stored values
Inputs(w) == <<OwnedRows(assignments, w), OwnedRows(risks, w)>>

\* C5: while an item is submitted or approved, and so at the moment its
\* approve succeeds, the assignments and risks it owns and their stored
\* values are the ones it owned when its last submit succeeded.
C5_FrozenInputs ==
  \A w \in WbsIds : StatusOf(w) \in Blocked => Inputs(w) = submitted_inputs[w]

\* an item was approved with an updated assignment and a risk, and an edit
\* was refused afterwards
C5_Witness ==
  /\ resp.code = HTTP_409_CONFLICT
  /\ \E w \in WbsIds :
       /\ StatusOf(w) = "approved"
       /\ submitted_inputs[w][2] # {}
       /\ \E a \in GetByWbs(assignments, w) : assignments[a].best_estimate = 12

(* ---- C6 ---- *)
\* the call adds n to the revision of w and leaves every other revision
Adds(post, w, n) ==
  \A x \in WbsIds :
    post.wbs[x].estimate_revision
      = wbs[x].estimate_revision + (IF x = w THEN n ELSE 0)

\* C6: estimate_revision never decreases: a successful approve adds exactly
\* 1 to the revision of its item, no other call changes a revision, and the
\* revision of an item is the number of approvals logged for it (1 after
\* submit, approve from revision 0).
C6_Revision ==
  /\ \A w \in WbsIds :
       wbs[w].estimate_revision
         = CountOf(ActionsOf(audit_logs, w), "APPROVE")
  /\ \A w \in WbsIdInputs :
       /\ \A u \in Approvers, t \in Times :
            LET post == approve(w, u, t) IN
              Adds(post, w, IF post.resp = Ok THEN 1 ELSE 0)
       /\ \A u \in Submitters :
            /\ Adds(submit_for_approval(w, u), w, 0)
            /\ Adds(reset_to_draft(w, u), w, 0)
       /\ \A c \in Comments : Adds(reject(w, Reviewer, c), w, 0)
       /\ \A d \in WBSUpdateInputs : Adds(update_wbs(w, d), w, 0)
       /\ Adds(assignment_create(w, AssignmentBody), w, 0)
  /\ \A a \in AssignmentIdInputs : Adds(assignment_delete(a), 0, 0)

\* a draft item of revision 0 was submitted and approved: revision 1
C6_Witness ==
  \E w \in WbsIds :
    /\ ActionsOf(audit_logs, w) = <<"SUBMIT", "APPROVE">>
    /\ StatusOf(w) = "approved"
    /\ wbs[w].estimate_revision = 1
    /\ resp = Ok

(* ---- C7 ---- *)
NoAssignments ==
  HTTPException(HTTP_400_BAD_REQUEST,
    <<"Cannot submit for approval: WBS has no assignments">>)

\* C7: a submit of a draft item that has no assignment fails with HTTP 400
\* and writes nothing (the item stays draft); a submit of a draft item that
\* has one assignment or more succeeds and makes it submitted.
C7_SubmitNeedsAssignments ==
  \A w \in WbsIds, u \in Submitters :
    StatusOf(w) = "draft" =>
      LET post == submit_for_approval(w, u) IN
        IF \A a \in DOMAIN assignments : assignments[a].wbs_id # w
        THEN post = Raise(NoAssignments)
        ELSE /\ post.resp = Ok
             /\ post.wbs[w].approval_status = "submitted"

\* a submit was refused on a draft item without assignments, while another
\* item with exactly one assignment has been submitted
C7_Witness ==
  /\ resp = NoAssignments
  /\ \E w, x \in WbsIds :
       /\ StatusOf(w) = "draft"
       /\ \A a \in DOMAIN assignments : assignments[a].wbs_id = x
       /\ StatusOf(x) = "submitted"
       /\ Cardinality(DOMAIN assignments) = 1

(* ---- C8 ---- *)
\* C8: a successful approve of a submitted item makes it approved with the
\* caller as approver and the time of the call as approver_date, and in
\* every state an approved item has as approver the caller of the approve
\* that succeeded.
C8_ApproverIsActor ==
  \A w \in WbsIds :
    /\ StatusOf(w) = "submitted" =>
         \A u \in Approvers, t \in Times :
           LET post == approve(w, u, t) IN
             /\ post.resp = Ok
             /\ post.wbs[w].approval_status = "approved"
             /\ post.wbs[w].approver = u.username
             /\ post.wbs[w].approver_date = t
    /\ StatusOf(w) = "approved" => wbs[w].approver = approved_by[w][1]

(* ---- C9 ---- *)
\* the call changes no column of any WBS row other than approval_status
OnlyStatus(post) ==
  \A x \in WbsIds :
    post.wbs[x]
      = [wbs[x] EXCEPT !.approval_status = post.wbs[x].approval_status]

\* C9: submit, reject and reset write no column of the WBS row other than
\* approval_status, so the revision of an item is 0 as long as no approve is
\* logged for it; a reject keeps its comment off the row and puts it in the
\* audit row it writes, and no other audit row carries a comment.
C9_OnlyStatus ==
  /\ \A w \in WbsIdInputs, u \in Submitters :
       /\ OnlyStatus(submit_for_approval(w, u))
       /\ OnlyStatus(reset_to_draft(w, u))
  /\ \A w \in WbsIdInputs, c \in Comments :
       LET post == reject(w, Reviewer, c) IN
         /\ OnlyStatus(post)
         /\ (post.resp = Ok /\ c \notin {NULL, ""}) =>
              post.audit_logs[Len(post.audit_logs)].new_values.comment = c
  /\ \A w \in WbsIds :
       CountOf(ActionsOf(audit_logs, w), "APPROVE") = 0
         => wbs[w].estimate_revision = 0
  /\ \A i \in DOMAIN audit_logs :
       audit_logs[i].new_values.comment # NULL
         => audit_logs[i].action = "REJECT"

\* draft -> submit -> reject with a comment -> reset -> submit: revision 0
C9_Witness ==
  \E w \in WbsIds :
    /\ ActionsOf(audit_logs, w) = <<"SUBMIT", "REJECT", "RESET", "SUBMIT">>
    /\ \E i \in DOMAIN audit_logs :
         audit_logs[i].new_values.comment = "Fix estimate"
    /\ StatusOf(w) = "submitted"
    /\ wbs[w].estimate_revision = 0
    /\ wbs[w].approver = NULL

(* ---- C10 ---- *)
\* C10: approval requests that overlap on one item leave what they would
\* leave one after the other: an approve and a reject of the same submitted
\* item do not both succeed (no item is rejected after its approve has
\* succeeded), and a rejected row never carries an approver or a counted
\* revision.
C10_Atomic ==
  \A w \in WbsIds :
    StatusOf(w) = "rejected" =>
      /\ approved_by[w] = <<NULL, NoDate>>
      /\ wbs[w].approver = NULL
      /\ wbs[w].estimate_revision = 0

(* ---- C11 ---- *)
\* C11: the guard and the write of an assignment or risk request are one
\* atomic step with respect to submit and approve: no create, update or
\* delete of an assignment or a risk is committed while the owning WBS item
\* is submitted or approved.
C11_GuardAtomic ==
  [][\A s \in sessions :
       CommitEdit(s) => StatusOf(s.wbs_id) \notin Blocked]_vars

(* ---- C12 ---- *)
\* the last transition logged for the item ("NONE" before the first)
LastAction(w) ==
  LET log == ActionsOf(audit_logs, w) IN
    IF log = <<>> THEN "NONE" ELSE log[Len(log)]

\* no create, update or delete of an assignment or risk of w succeeds
NoEditSucceeds(w) ==
  /\ \A d \in AssignmentCreateInputs : assignment_create(w, d).resp # Ok
  /\ \A d \in RiskCreateInputs : risk_create(w, d).resp # Ok
  /\ \A a \in GetByWbs(assignments, w) :
       /\ \A d \in AssignmentUpdateInputs : assignment_update(a, d).resp # Ok
       /\ assignment_delete(a).resp # Ok
  /\ \A r \in GetByWbs(risks, w) :
       /\ \A d \in RiskUpdateInputs : risk_update(r, d).resp # Ok
       /\ risk_delete(r).resp # Ok

\* C12 as stated: from the successful submit of an item until both a reject
\* and a reset have succeeded on it (last transition SUBMIT, APPROVE or
\* REJECT), no create, update or delete of its assignments or risks succeeds.
C12_FrozenUntilReset ==
  \A w \in WbsIds :
    LastAction(w) \in {"SUBMIT", "APPROVE", "REJECT"} => NoEditSucceeds(w)

\* C12 amended: from the successful submit of an item until a reject has
\* succeeded on it (last transition SUBMIT or APPROVE) no create, update or
\* delete of its assignments or risks succeeds; once the reject has
\* succeeded the item is open to edits again, before any reset.
C12_FrozenUntilReject ==
  \A w \in WbsIds :
    /\ LastAction(w) \in {"SUBMIT", "APPROVE"} => NoEditSucceeds(w)
    /\ LastAction(w) = "REJECT" =>
         /\ assignment_create(w, AssignmentBody).resp = Ok
         /\ \A d \in RiskCreateInputs : risk_create(w, d).resp = Ok
         /\ \A a \in GetByWbs(assignments, w) :
              assignment_delete(a).resp = Ok
         /\ \A r \in GetByWbs(risks, w) : risk_delete(r).resp = Ok

\* an item was submitted and rejected, and its last assignment was deleted
\* before any reset
C12_Witness ==
  \E w \in WbsIds :
    /\ LastAction(w) = "REJECT"
    /\ StatusOf(w) = "rejected"
    /\ GetByWbs(assignments, w) = {}
    /\ resp = Ok

(* ---- C13 ---- *)
ApprovalFields ==
  {"approval_status", "approver", "approver_date", "estimate_revision"}

\* C13: the WBS update of the CRUD layer changes none of approval_status,
\* approver, approver_date and estimate_revision of any WBS row.
C13_UpdateKeepsApproval ==
  \A w \in WbsIdInputs, d \in WBSUpdateInputs :
    \A x \in WbsIds, f \in ApprovalFields :
      update_wbs(w, d).wbs[x][f] = wbs[x][f]

(* ---- C14 ---- *)
\* the audit rows the call added to the log
Emitted(post) ==
  SubSeq(post.audit_logs, Len(audit_logs) + 1, Len(post.audit_logs))

\* a successful transition adds one row with the id, code and title of the
\* item, the status and the revision the row has after the call, and the
\* comment when it is not empty; a refused one adds nothing
EmitsOne(post, w, action, status, comment) ==
  /\ SubSeq(post.audit_logs, 1, Len(audit_logs)) = audit_logs
  /\ IF post.resp = Ok
     THEN /\ Len(Emitted(post)) = 1
          /\ LET e == Emitted(post)[1] IN
               /\ e.action = action
               /\ e.entity_type = "WBS"
               /\ e.entity_id = w
               /\ e.new_values.wbs_code = wbs[w].wbs_code
               /\ e.new_values.wbs_title = wbs[w].wbs_title
               /\ e.new_values.approval_status = status
               /\ post.wbs[w].approval_status = status
               /\ e.new_values.estimate_revision
                    = post.wbs[w].estimate_revision
               /\ e.new_values.comment
                    = (IF comment \in {NULL, ""} THEN NULL ELSE comment)
     ELSE Emitted(post) = <<>>

\* the call adds no audit row
EmitsNone(post) == post.audit_logs = audit_logs

NotFound(post) ==
  /\ post.resp.code = HTTP_404_NOT_FOUND
  /\ post = Raise(post.resp)

\* C15: an approval operation, an assignment or risk mutation and a cost
\* summary that name a WBS item, an assignment or a risk that does not exist
\* are refused with 404, whatever else the request carries (an item that has
\* no assignments, an unknown resource code): a missing id is never answered
\* with 409 or 400.
C15_NotFoundFirst ==
  /\ \A w \in WbsIdInputs \ DOMAIN wbs :
       /\ \A u \in Submitters :
            /\ NotFound(submit_for_approval(w, u))
            /\ NotFound(reset_to_draft(w, u))
       /\ \A u \in Approvers, t \in Times : NotFound(approve(w, u, t))
       /\ \A c \in Comments : NotFound(reject(w, Reviewer, c))
       /\ \A d \in AssignmentCreateInputs : NotFound(assignment_create(w, d))
       /\ \A d \in RiskCreateInputs : NotFound(risk_create(w, d))
       /\ NotFound(get_wbs_cost_summary(w))
  /\ \A a \in AssignmentIdInputs \ DOMAIN assignments :
       /\ \A d \in AssignmentUpdateInputs : NotFound(assignment_update(a, d))
       /\ NotFound(assignment_delete(a))
  /\ \A r \in RiskIdInputs \ DOMAIN risks :
       /\ \A d \in RiskUpdateInputs : NotFound(risk_update(r, d))
       /\ NotFound(risk_delete(r))

\* a call on a missing id has just been refused while an item is submitted
\* and an assignment id has gone
C15_Witness ==
  /\ resp.code = HTTP_404_NOT_FOUND
  /\ \E w \in WbsIds : StatusOf(w) = "submitted"
  /\ \E a \in AssignmentIdInputs :
       a \notin DOMAIN assignments /\ a <= assignment_seq

(* ---- C16 ---- *)
\* the assignment rows of the WBS item, by id
Assigned(w) == {k \in DOMAIN assignments : assignments[k].wbs_id = w}

\* Sum of (worst - best)^2 over the rows of the item, in 36ths
Variance36(w) ==
  Sum([k \in Assigned(w) |->
         (assignments[k].worst_estimate - assignments[k].best_estimate)
           * (assignments[k].worst_estimate - assignments[k].best_estimate)])

\* x is the square root of n at the resolution of the model
IsRoot(x, n) == x >= 0 /\ x * x <= n /\ n < (x + 1) * (x + 1)

\* C16: the summary's total PERT is the sum of (best + 4 likely + worst) / 6
\* over the item's assignments and its combined standard deviation is the
\* square root of the sum of the squared deviations ((worst - best) / 6)^2,
\* not the sum of the deviations: three assignments of deviation 10 give
\* sqrt(300), between 17 and 18, and an item with no assignment gives 0 and 0.
C16_PertAggregate ==
  \A w \in WbsIds :
    LET b == get_wbs_cost_summary(w).resp.body IN
      /\ b.assignment_count = Cardinality(Assigned(w))
      /\ b.total_pert_estimate
           = Sum([k \in Assigned(w) |->
                    assignments[k].best_estimate
                      + 4 * assignments[k].likely_estimate
                      + assignments[k].worst_estimate])
      /\ IsRoot(b.total_std_deviation, Precision * Precision * Variance36(w))
      /\ Assigned(w) = {}
           => b.total_pert_estimate = 0 /\ b.total_std_deviation = 0
      /\ (/\ Cardinality(Assigned(w)) = 3
          /\ \A k \in Assigned(w) :
               assignments[k].worst_estimate - assignments[k].best_estimate
                 = 10 * Sixths)
           => /\ b.total_std_deviation >= 17 * Sixths * Precision
              /\ b.total_std_deviation < 18 * Sixths * Precision

\* the summary of an item with three assignments of deviation 10 was returned
C16_Witness ==
  /\ "body" \in DOMAIN resp
  /\ resp.body.assignment_count = 3
  /\ \A k \in Assigned(resp.body.wbs_id) :
       assignments[k].worst_estimate - assignments[k].best_estimate
         = 10 * Sixths
  /\ resp.body.total_std_deviation >= 17 * Sixths * Precision
  /\ resp.body.total_std_deviation < 18 * Sixths * Precision

(* ---- C17 ---- *)
\* the risk rows of the WBS item, by id
RisksOf(w) == {k \in DOMAIN risks : risks[k].wbs_id = w}

\* the code is not set, or names no row of the level table
Unresolved(code, levels) == code \in {NULL, ""} \/ code \notin DOMAIN levels

\* the exposure the call reports for the risk
ExposureOf(r) == get_with_exposure(r).resp.body.risk_exposure

\* C17: the exposure of a risk whose probability_code or severity_code is not
\* set or names no level is 0, returned without an error; otherwise it is
\* risk_cost times the probability weight times the severity weight; the
\* total exposure of a WBS item is the sum of the exposures of its risks.
C17_RiskExposure ==
  /\ \A r \in DOMAIN risks :
       /\ get_with_exposure(r).resp.code = 0
       /\ IF \/ Unresolved(risks[r].probability_code, probability_levels)
             \/ Unresolved(risks[r].severity_code, severity_levels)
          THEN ExposureOf(r) = 0
          ELSE ExposureOf(r)
                 = risks[r].risk_cost
                     * probability_levels[risks[r].probability_code]
                     * severity_levels[risks[r].severity_code]
  /\ \A w \in WbsIds :
       LET b == get_wbs_cost_summary(w).resp.body IN
         /\ b.risk_count = Cardinality(RisksOf(w))
         /\ b.total_risk_exposure = Sum([r \in RisksOf(w) |-> ExposureOf(r)])

\* the summary of an item with one priced risk and one risk without a
\* resolving code was returned: the total is the exposure of the priced one
C17_Witness ==
  /\ "body" \in DOMAIN resp
  /\ "risk_count" \in DOMAIN resp.body
  /\ resp.body.risk_count = 2
  /\ resp.body.total_risk_exposure > 0
  /\ \E r \in RisksOf(resp.body.wbs_id) :
       /\ risks[r].probability_code = "UNKNOWN"
       /\ resp.body.total_risk_exposure
            = Sum([k \in RisksOf(resp.body.wbs_id) \ {r} |-> ExposureOf(k)])

(* ---- C18 ---- *)
\* the interval fields are in units of 1 / (Sixths * Precision * Z_80_Scale)
IntervalUnit == Precision * Z_80_Scale

\* C18: the 80% interval of a summary is its total PERT minus and plus 1.28
\* times its combined standard deviation; it is symmetric about the total
\* PERT (low + high = 2 * pert), and the lower limit is not clamped: it is
\* negative whenever 1.28 * std exceeds the total PERT.
C18_ConfidenceInterval ==
  \A w \in WbsIds :
    LET b == get_wbs_cost_summary(w).resp.body IN
      /\ Z_80_Scale * (IntervalUnit * b.total_pert_estimate
                         - b.confidence_80_low)
           = Z_80 * Z_80_Scale * b.total_std_deviation
      /\ Z_80_Scale * (b.confidence_80_high
                         - IntervalUnit * b.total_pert_estimate)
           = Z_80 * Z_80_Scale * b.total_std_deviation
      /\ b.confidence_80_low + b.confidence_80_high
           = 2 * IntervalUnit * b.total_pert_estimate
      /\ b.confidence_80_low <= b.confidence_80_high
      /\ Z_80 * b.total_std_deviation > IntervalUnit * b.total_pert_estimate
           => b.confidence_80_low < 0

\* a summary with a negative lower limit was returned
C18_Witness ==
  /\ "body" \in DOMAIN resp
  /\ resp.body.assignment_count > 0
  /\ resp.body.confidence_80_low < 0
  /\ resp.body.confidence_80_high > 0

(* ---- C19 ---- *)
\* the summary agrees with the rows the tables hold now
Current(b) ==
  /\ b.wbs_id \in WbsIds
  /\ b.approval_status = wbs[b.wbs_id].approval_status
  /\ b.assignment_count = Cardinality(Assigned(b.wbs_id))
  /\ b.total_pert_estimate
       = Sum([k \in Assigned(b.wbs_id) |->
                assignments[k].best_estimate
                  + 4 * assignments[k].likely_estimate
                  + assignments[k].worst_estimate])
  /\ IsRoot(b.total_std_deviation,
            Precision * Precision * Variance36(b.wbs_id))
  /\ b.risk_count = Cardinality(RisksOf(b.wbs_id))
  /\ b.total_risk_exposure
       = Sum([r \in RisksOf(b.wbs_id) |->
                IF \/ Unresolved(risks[r].probability_code, probability_levels)
                   \/ Unresolved(risks[r].severity_code, severity_levels)
                THEN 0
                ELSE risks[r].risk_cost
                       * probability_levels[risks[r].probability_code]
                       * severity_levels[risks[r].severity_code]])

\* C19: a cost summary is computed from the rows persisted at the time of
\* the call: in every state the edits can reach, the summary of each item
\* agrees with the assignments, risks and status stored now, so the summary
\* that follows a successful create, update or delete reflects it; a summary
\* that is the last response agrees with the tables.
C19_ReadAfterWrite ==
  /\ \A w \in WbsIds : Current(get_wbs_cost_summary(w).resp.body)
  /\ "body" \in DOMAIN resp => Current(resp.body)

\* the summary returned after an update of best_estimate from 6 to 12 shows
\* the new PERT total, (12 + 4 * 12 + 18) / 6
C19_Witness ==
  /\ "body" \in DOMAIN resp
  /\ resp.body.assignment_count = 1
  /\ resp.body.total_pert_estimate = 12 + 4 * 12 + 18
  /\ resp.body.risk_count = 1

(* ---- C20 ---- *)
\* the codes the assignments carry
CostTypeCodes ==
  {assignments[k].cost_type_code : k \in DOMAIN assignments} \ {NULL, ""}

\* the assignments with the code
WithCode(c) == {k \in DOMAIN assignments : assignments[k].cost_type_code = c}

\* C20: the cost type breakdown has exactly one entry for each distinct code
\* of the assignments; its total is the sum of the PERT estimates of the
\* assignments with the code and its count is their number; entries are in
\* descending order of total.  Codes LABOR, LABOR, MATERIAL with PERT 100,
\* 150, 200 give LABOR 250 / 2 before MATERIAL 200 / 1.
C20_Breakdown ==
  LET B == compute_cost_type_breakdown(AsList(assignments)) IN
    /\ \A c \in CostTypeCodes :
         /\ Cardinality({i \in DOMAIN B : B[i].code = c}) = 1
         /\ \A i \in DOMAIN B :
              B[i].code = c =>
                /\ B[i].total_pert
                     = Sum([k \in WithCode(c) |->
                              assignments[k].best_estimate
                                + 4 * assignments[k].likely_estimate
                                + assignments[k].worst_estimate])
                /\ B[i].assignment_count = Cardinality(WithCode(c))
    /\ \A i \in DOMAIN B : B[i].code \in CostTypeCodes \cup {"UNASSIGNED"}
    /\ \A i, j \in DOMAIN B : i < j => B[i].total_pert >= B[j].total_pert
    /\ (/\ Len(assignments) = 3
        /\ assignments[1].cost_type_code = "LABOR"
        /\ assignments[2].cost_type_code = "LABOR"
        /\ assignments[3].cost_type_code = "MATERIAL"
        /\ pert_estimate(assignments[1]) = 100 * Sixths
        /\ pert_estimate(assignments[2]) = 150 * Sixths
        /\ pert_estimate(assignments[3]) = 200 * Sixths)
         => /\ Len(B) = 2
            /\ B[1].code = "LABOR"
            /\ B[1].total_pert = 250 * Sixths
            /\ B[1].assignment_count = 2
            /\ B[2].code = "MATERIAL"
            /\ B[2].total_pert = 200 * Sixths
            /\ B[2].assignment_count = 1

\* the breakdown of LABOR 100, LABOR 150, MATERIAL 200 was returned
C20_Witness ==
  /\ "body" \in DOMAIN resp
  /\ Len(assignments) = 3
  /\ assignments[1].cost_type_code = "LABOR"
  /\ assignments[2].cost_type_code = "LABOR"
  /\ assignments[3].cost_type_code = "MATERIAL"
  /\ Len(resp.body.by_cost_type) = 2
  /\ resp.body.by_cost_type[1].code = "LABOR"
  /\ resp.body.by_cost_type[1].total_pert = 250 * Sixths
  /\ resp.body.by_cost_type[2].total_pert = 200 * Sixths

(* ---- C21 ---- *)
\* the breakdowns of the project estimate that bucket missing codes
Optional ==
  { <<"by_cost_type", "cost_type_code">>, <<"by_region", "region_code">>,
    <<"by_supplier", "supplier_code">> }

\* what the entry shows as the description of its code
Shown(e) == IF "name" \in DOMAIN e THEN e.name ELSE e.description

\* the assignments of the project
InProject(p) ==
  {k \in DOMAIN assignments :
     /\ assignments[k].wbs_id \in DOMAIN wbs
     /\ wbs[assignments[k].wbs_id].project_id = p}

\* the lookup tables of the dimensions
TableOf(field) ==
  CASE field = "cost_type_code" -> cost_types
    [] field = "region_code" -> regions
    [] field = "supplier_code" -> suppliers
    [] field = "resource_code" -> resources

Breakdowns == {"by_cost_type", "by_region", "by_resource", "by_supplier"}

\* the fields of the project estimate that are not breakdowns
Aggregates ==
  {"project_id", "project_name", "total_wbs_items", "total_assignments",
   "total_pert_estimate", "total_std_deviation", "confidence_80_low",
   "confidence_80_high", "total_risks", "total_risk_exposure",
   "risk_adjusted_estimate", "wbs_summaries"}

\* C22 as stated: the project estimate carries a breakdown for each of the
\* six dimensions, business area and estimating technique included.
C22_SixBreakdowns ==
  \A p \in ProjectIds :
    LET b == get_project_estimation(p).resp.body
    IN Breakdowns \cup {"by_bus_area", "by_estimating_technique"}
         \subseteq DOMAIN b

\* C22 amended: the project estimate carries, next to the aggregate fields
\* and one summary per WBS item of the project, a breakdown for cost type,
\* region, resource and supplier and for no other dimension; each of the
\* four has an entry exactly when the project has an assignment.
C22_FourBreakdowns ==
  \A p \in ProjectIds :
    LET b == get_project_estimation(p).resp.body
    IN /\ DOMAIN b = Aggregates \cup Breakdowns
       /\ Len(b.wbs_summaries)
            = Cardinality({w \in DOMAIN wbs : wbs[w].project_id = p})
       /\ \A f \in Breakdowns : (b[f] # <<>>) <=> (InProject(p) # {})

\* an estimate was returned for a project with assignments: it has the four
\* breakdowns, each with an entry
C22_Witness ==
  /\ "body" \in DOMAIN resp
  /\ DOMAIN resp.body = Aggregates \cup Breakdowns
  /\ resp.body.total_assignments = MaxProjectRows
  /\ \A f \in Breakdowns : resp.body[f] # <<>>

(* ---- C23 ---- *)
\* the WBS item owns no assignment
OwnsNothing(w) == \A k \in DOMAIN assignments : assignments[k].wbs_id # w

\* C23: submit on an item that is submitted, approved or rejected fails
\* with 409 whatever the number of its assignments; submit fails with 400
\* exactly when the item is in draft and owns no assignment.
C23_TransitionBeforeCount ==
  \A w \in WbsIds, u \in Submitters :
    LET post == submit_for_approval(w, u)
    IN /\ StatusOf(w) # "draft" =>
            /\ post.resp.code = HTTP_409_CONFLICT
            /\ post.resp.detail
                 = <<"Cannot transition from", StatusOf(w), "to", "submitted">>
       /\ post.resp.code = HTTP_400_BAD_REQUEST
            <=> (StatusOf(w) = "draft" /\ OwnsNothing(w))

\* a submit was refused with 409 on a rejected item that owns no assignment
C23_Witness ==
  /\ resp.code = HTTP_409_CONFLICT
  /\ resp.detail = <<"Cannot transition from", "rejected", "to", "submitted">>
  /\ \A w \in WbsIds : StatusOf(w) = "rejected" /\ OwnsNothing(w)

(* ---- C24 ---- *)
\* the call was answered with an error
Failed(post) ==
  post.resp.code \in {HTTP_404_NOT_FOUND, HTTP_409_CONFLICT,
                      HTTP_400_BAD_REQUEST}

\* the call wrote no row and no audit event
Untouched(post) ==
  /\ post.wbs = wbs
  /\ post.audit_logs = audit_logs
  /\ post.assignments = assignments
  /\ post.assignment_seq = assignment_seq
  /\ post.risks = risks
  /\ post.risk_seq = risk_seq

\* C24: an approval operation that fails with 404, 409 or 400 changes no
\* field of any WBS item and adds no audit event, and a create, update or
\* delete of an assignment or a risk that fails leaves the assignments and
\* the risks as they were.
C24_FailureWritesNothing ==
  /\ \A w \in WbsIdInputs :
       /\ \A u \in Submitters :
            /\ Failed(submit_for_approval(w, u))
                 => Untouched(submit_for_approval(w, u))
            /\ Failed(reset_to_draft(w, u)) => Untouched(reset_to_draft(w, u))
       /\ \A u \in Approvers, t \in Times :
            Failed(approve(w, u, t)) => Untouched(approve(w, u, t))
       /\ \A c \in Comments :
            Failed(reject(w, Reviewer, c)) => Untouched(reject(w, Reviewer, c))
       /\ \A d \in AssignmentCreateInputs :
            Failed(assignment_create(w, d)) => Untouched(assignment_create(w, d))
       /\ \A d \in RiskCreateInputs :
            Failed(risk_create(w, d)) => Untouched(risk_create(w, d))
  /\ \A a \in AssignmentIdInputs :
       /\ Failed(assignment_delete(a)) => Untouched(assignment_delete(a))
       /\ \A d \in AssignmentUpdateInputs :
            Failed(assignment_update(a, d)) => Untouched(assignment_update(a, d))
  /\ \A r \in RiskIdInputs :
       /\ Failed(risk_delete(r)) => Untouched(risk_delete(r))
       /\ \A d \in RiskUpdateInputs :
            Failed(risk_update(r, d)) => Untouched(risk_update(r, d))

\* an assignment call was refused on a frozen item that owns an assignment
\* and a risk and has audit events
C24_Witness ==
  /\ resp.code = HTTP_409_CONFLICT
  /\ resp.detail[1] = AssignmentBlocked
  /\ assignments # <<>>
  /\ risks # <<>>
  /\ audit_logs # <<>>

(* ---- C25 ---- *)
\* C25: after any sequence of approval operations and assignment creates,
\* updates and deletes, run one at a time, every WBS item that is submitted
\* or approved owns at least one assignment.
C25_FrozenItemHasAssignment ==
  \A w \in WbsIds :
    StatusOf(w) \in Blocked =>
      \E k \in DOMAIN assignments : assignments[k].wbs_id = w

\* an approved item owns exactly one assignment, and the delete of an
\* assignment has just been refused
C25_Witness ==
  /\ resp.code = HTTP_409_CONFLICT
  /\ resp.detail = <<AssignmentBlocked, "approved">>
  /\ \E w \in WbsIds :
       /\ StatusOf(w) = "approved"
       /\ Cardinality({k \in DOMAIN assignments :
                         assignments[k].wbs_id = w}) = 1

(* ---- C26 ---- *)
\* C26: after any sequence of submit, approve, reject and reset calls on
\* items created in draft without approver and with revision 0, an item has
\* an approver and an approver_date exactly when it is approved, its
\* estimate_revision is 1 exactly when it is approved, and the revision is
\* never above 1.
C26_ApprovalFields ==
  \A w \in WbsIds :
    /\ (wbs[w].approver # NULL) <=> (StatusOf(w) = "approved")
    /\ (wbs[w].approver_date # NoDate) <=> (StatusOf(w) = "approved")
    /\ (wbs[w].estimate_revision = 1) <=> (StatusOf(w) = "approved")
    /\ wbs[w].estimate_revision <= 1

\* one item was approved (approver, date and revision 1) while another one
\* was submitted and rejected (no approver, revision 0)
C26_Witness ==
  \E v, w \in WbsIds :
    /\ StatusOf(v) = "approved"
    /\ wbs[v].approver = "bob"
    /\ wbs[v].approver_date = 1
    /\ wbs[v].estimate_revision = 1
    /\ StatusOf(w) = "rejected"
    /\ wbs[w].approver = NULL
    /\ wbs[w].estimate_revision = 0

(* ---- C27 ---- *)
\* the WBS item, its assignments and its risks are as they were
KeptInPlace(post, w) ==
  /\ w \in DOMAIN post.wbs
  /\ OwnedRows(post.assignments, w) = OwnedRows(assignments, w)
  /\ OwnedRows(post.risks, w) = OwnedRows(risks, w)

\* C27: while a WBS item is submitted or approved, deleting the item,
\* deleting its project and clearing the WBS items of its project for a
\* re-import are refused or leave the item, its assignments and its risks in
\* place.
C27_FrozenItemsKept ==
  \A w \in DOMAIN wbs :
    StatusOf(w) \in Blocked =>
      /\ KeptInPlace(delete_wbs(w), w)
      /\ KeptInPlace(project_delete(wbs[w].project_id), w)
      /\ \A o \in BulkDeleteOutcomes :
           KeptInPlace(delete_by_project(wbs[w].project_id, o), w)

(* ---- C28 ---- *)
\* the sum of a field over the per-WBS summaries
SumOver(summaries, field) ==
  Sum([i \in DOMAIN summaries |-> summaries[i][field]])

\* the sum of the squared standard deviations, each raised by up
SumOfSquares(summaries, up) ==
  Sum([i \in DOMAIN summaries |->
         (summaries[i].total_std_deviation + up)
           * (summaries[i].total_std_deviation + up)])

GroupedBy ==
  [by_cost_type |-> "cost_type_code", by_region |-> "region_code",
   by_resource |-> "resource_code", by_supplier |-> "supplier_code"]

\* the code under which the breakdown counts the assignment
BucketOf(k, breakdown) ==
  IF /\ breakdown # "by_resource"
     /\ assignments[k][GroupedBy[breakdown]] \in {NULL, ""}
  THEN "UNASSIGNED"
  ELSE assignments[k][GroupedBy[breakdown]]

\* C29: each breakdown of the project estimate is a partition of the
\* project's assignments: no code is in two entries, every assignment falls
\* under exactly one entry, an entry counts and totals exactly the
\* assignments under its code, the counts add up to the project's number of
\* assignments and the totals to the project's total PERT.
C29_Partition ==
  \A p \in ProjectIds :
    LET b == get_project_estimation(p).resp.body
    IN \A f \in Breakdowns :
         LET e == b[f]
             Under(i) == {k \in InProject(p) : BucketOf(k, f) = e[i].code}
         IN /\ \A i, j \in DOMAIN e : e[i].code = e[j].code => i = j
            /\ \A k \in InProject(p) :
                 Cardinality({i \in DOMAIN e : e[i].code = BucketOf(k, f)}) = 1
            /\ \A i \in DOMAIN e :
                 /\ e[i].assignment_count = Cardinality(Under(i))
                 /\ e[i].assignment_count > 0
                 /\ e[i].total_pert
                      = Sum([k \in Under(i) |->
                               assignments[k].best_estimate
                                 + 4 * assignments[k].likely_estimate
                                 + assignments[k].worst_estimate])
            /\ Sum([i \in DOMAIN e |-> e[i].assignment_count])
                 = b.total_assignments
            /\ Sum([i \in DOMAIN e |-> e[i].total_pert])
                 = b.total_pert_estimate
            /\ b.total_assignments = Cardinality(InProject(p))

\* an estimate was returned in which two assignments share the resource
\* entry and are split over two cost type entries
C29_Witness ==
  /\ "body" \in DOMAIN resp
  /\ "by_resource" \in DOMAIN resp.body
  /\ Len(resp.body.by_resource) = 1
  /\ resp.body.by_resource[1].assignment_count = 2
  /\ Len(resp.body.by_cost_type) = 2
  /\ resp.body.total_assignments = 2

(* ---- C30 ---- *)
\* C30: when process_import returns for a job that exists, the job is
\* completed or failed, never left in parsing or creating_records; if it is
\* failed and its project exists (the download, the parse or the creation of
\* the records failed) the project's status is import_failed, and if it is
\* completed the project's status is imported.
C30_ImportEndsInFinalState ==
  \A j \in DOMAIN import_jobs, outcome \in ImportOutcomes,
     tasks \in ParsedFiles, bulk \in BulkDeleteOutcomes :
    import_jobs[j].status = "pending" =>
      LET post == process_import(j, outcome, tasks, bulk)
          p == import_jobs[j].project_id
      IN /\ post.import_jobs[j].status \in {"completed", "failed"}
         /\ (post.import_jobs[j].status = "failed"
             /\ p \in DOMAIN post.projects)
              => post.projects[p].status = "import_failed"
         /\ post.import_jobs[j].status = "completed"
              => post.projects[p].status = "imported"

====
